---- MODULE Spec2Model ----
(***************************************************************************)
(* Verification model of the Atlantix EDA resistor library generator.      *)
(*                                                                         *)
(* Numbers.  Every resistance the program handles is a base value with two *)
(* decimals times a power of ten, so an f64 resistance is modelled by the  *)
(* integer number of hundredths of an ohm ("hundredths").  Rust's          *)
(* format!("{:.p}", x) is modelled by Fmt, which rounds the exact value to *)
(* p decimals (ties to even), f64::round by RoundHalfAway.  Text is        *)
(* modelled by TLA+ strings, concatenated as the code concatenates them.   *)
(***************************************************************************)
EXTENDS Integers, Sequences, FiniteSets, TLC

VARIABLES
  arg,          \* SpecFn: the input of one call of a pure function
  out,          \* SpecFn: the function applied and the value it returned
  request,      \* legacy: the arguments of the run of gen_resistor
  pc,           \* legacy: the position of main in its loops
  resistor,     \* legacy: the Resistor object of the package being generated
  full_series,  \* legacy: local full_series of generate_altium_libraries (rows)
  decades_done, \* legacy: decades already passed to Resistor::generate
  files,        \* legacy/CLI: the files written so far, name -> content
  result,       \* legacy/CLI: outcome of the last request
  stderr,       \* legacy: the error lines printed by the current run
  runs,         \* legacy: output directory and stderr of the completed earlier runs
  params,       \* ECS: the series and package list main spawns templates for
  world,        \* ECS: the entities of the World, in spawn order
  commands,     \* ECS: deferred commands queued during the current schedule run
  cache,        \* ECS: ESeriesCache.cache
  config,       \* ECS: the GeneratorConfig resource
  sched,        \* ECS: the schedule being run and the systems still to run
  tick,         \* ECS: the world's change tick
  last_run,     \* ECS: per schedule and system, the tick of its last run
  history,      \* ECS: the schedules run to completion, in order
  disk,         \* CLI: the files of the data directory, path -> content
  cli,          \* CLI: the aeda command being executed and its position
  recorded,     \* CLI: the manifest entries generate has recorded, in order
  generation_status, \* GUI: the shared GenerationStatus
  workers,      \* GUI: the generation threads spawned so far, each with its position
  app           \* GUI: AtlantixApp.config and where the UI thread is in its frame

vars == << arg, out, request, pc, resistor, full_series, decades_done, files, result,
           stderr, runs,
           params, world, commands, cache, config, sched, tick, last_run, history,
           disk, cli, recorded, generation_status, workers, app >>

cliVars    == << disk, cli, recorded >>
guiVars    == << generation_status, workers, app >>
fnVars     == << arg, out >>
legacyVars == << request, pc, resistor, full_series, decades_done, files, result,
                stderr, runs >>
ecsVars    == << params, world, commands, cache, config, sched, tick, last_run, history >>

-----------------------------------------------------------------------------
(* Bounds of the model *)

\* longest list of decades passed to one generation request
MaxDecades == 2
\* longest list of packages in one request
MaxPackages == 2
\* number of schedule runs of one world
MaxRuns == 3
MaxCalls == 3
\* the aeda commands run one after the other on one data directory
MaxCommands == 3

-----------------------------------------------------------------------------
(* Text and number helpers *)

Digit == [c \in {"0","1","2","3","4","5","6","7","8","9"} |->
            CASE c = "0" -> 0 [] c = "1" -> 1 [] c = "2" -> 2 [] c = "3" -> 3
              [] c = "4" -> 4 [] c = "5" -> 5 [] c = "6" -> 6 [] c = "7" -> 7
              [] c = "8" -> 8 [] c = "9" -> 9]

CharAt(s, i) == SubSeq(s, i, i)

Contains(s, c) == \E i \in 1..Len(s) : CharAt(s, i) = c

\* s with every occurrence of the one-character string c removed
RECURSIVE Remove(_, _)
Remove(s, c) ==
  IF Len(s) = 0 THEN ""
  ELSE IF CharAt(s, 1) = c THEN Remove(Tail(s), c)
       ELSE CharAt(s, 1) \o Remove(Tail(s), c)

\* left padding to a minimum width, as the width field of a format spec
RECURSIVE PadLeft(_, _, _)
PadLeft(s, width, fill) ==
  IF Len(s) >= width THEN s ELSE PadLeft(fill \o s, width, fill)

Pow10(p) == CASE p = 0 -> 1 [] p = 1 -> 10 [] p = 2 -> 100 [] p = 3 -> 1000

\* n/d rounded to an integer, ties to the even neighbour (format!("{:.p}"))
RoundHalfEven(n, d) ==
  LET q == n \div d
      r == n % d
  IN  IF 2 * r > d \/ (2 * r = d /\ q % 2 = 1) THEN q + 1 ELSE q

\* n/d rounded to an integer, ties away from zero (f64::round, n >= 0)
RoundHalfAway(n, d) ==
  LET q == n \div d
      r == n % d
  IN  IF 2 * r >= d THEN q + 1 ELSE q

\* format!("{:.p}", n/d) for n >= 0 and d a multiple of 10^p
Fmt(n, d, p) ==
  LET t == RoundHalfEven(n, d \div Pow10(p))
  IN  IF p = 0 THEN ToString(t)
      ELSE ToString(t \div Pow10(p)) \o "."
             \o PadLeft(ToString(t % Pow10(p)), p, "0")

\* format!("{}", x) for an f64 x of h hundredths: the shortest decimal
FmtDisplay(h) ==
  IF h % 100 = 0 THEN ToString(h \div 100)
  ELSE IF h % 10 = 0 THEN ToString(h \div 100) \o "." \o ToString((h % 100) \div 10)
  ELSE ToString(h \div 100) \o "." \o PadLeft(ToString(h % 100), 2, "0")

\* str::parse::<f64> of a display value with at most two decimals, in
\* hundredths; -1 when the text is no number (parse returns Err)
RECURSIVE ParseDigits(_)
ParseDigits(s) ==
  IF Len(s) = 0 THEN 0
  ELSE 10 * ParseDigits(SubSeq(s, 1, Len(s) - 1)) + Digit[CharAt(s, Len(s))]

IsDigits(s) == Len(s) > 0 /\ \A i \in 1..Len(s) : CharAt(s, i) \in DOMAIN Digit

ParseHundredths(s) ==
  IF IsDigits(s) THEN 100 * ParseDigits(s)
  ELSE IF \E i \in 1..Len(s) :
            /\ CharAt(s, i) = "."
            /\ IsDigits(SubSeq(s, 1, i - 1))
            /\ Len(s) - i \in {1, 2}
            /\ IsDigits(SubSeq(s, i + 1, Len(s)))
       THEN LET i    == CHOOSE j \in 1..Len(s) : CharAt(s, j) = "."
                frac == SubSeq(s, i + 1, Len(s))
            IN  100 * ParseDigits(SubSeq(s, 1, i - 1))
                  + (IF Len(frac) = 1 THEN 10 ELSE 1) * ParseDigits(frac)
       ELSE -1

-----------------------------------------------------------------------------
(* E-series base values, in hundredths *)

\* round(10^(index/series) * 100) for index in 0..series-1: the values the
\* loops of Resistor::new and ESeriesCache::get_or_calculate compute (the
\* two agree on every entry although one divides in f32 and one in f64).
\* The table holds the cardinalities the model draws its inputs from.
GeometricSeries(series) ==
  CASE series = 3 ->
      << 100, 215, 464 >>
    [] series = 6 ->
      << 100, 147, 215, 316, 464, 681 >>
    [] series = 7 ->
      << 100, 139, 193, 268, 373, 518, 720 >>
    [] series = 12 ->
      << 100, 121, 147, 178, 215, 261, 316, 383, 464, 562, 681, 825 >>
    [] series = 24 ->
      << 100, 110, 121, 133, 147, 162, 178, 196, 215, 237, 261, 287, 316, 348,
         383, 422, 464, 511, 562, 619, 681, 750, 825, 909 >>
    [] series = 48 ->
      << 100, 105, 110, 115, 121, 127, 133, 140, 147, 154, 162, 169, 178, 187,
         196, 205, 215, 226, 237, 249, 261, 274, 287, 301, 316, 332, 348, 365,
         383, 402, 422, 442, 464, 487, 511, 536, 562, 590, 619, 649, 681, 715,
         750, 787, 825, 866, 909, 953 >>
    [] series = 96 ->
      << 100, 102, 105, 107, 110, 113, 115, 118, 121, 124, 127, 130, 133, 137,
         140, 143, 147, 150, 154, 158, 162, 165, 169, 174, 178, 182, 187, 191,
         196, 200, 205, 210, 215, 221, 226, 232, 237, 243, 249, 255, 261, 267,
         274, 280, 287, 294, 301, 309, 316, 324, 332, 340, 348, 357, 365, 374,
         383, 392, 402, 412, 422, 432, 442, 453, 464, 475, 487, 499, 511, 523,
         536, 549, 562, 576, 590, 604, 619, 634, 649, 665, 681, 698, 715, 732,
         750, 768, 787, 806, 825, 845, 866, 887, 909, 931, 953, 976 >>
    [] series = 192 ->
      << 100, 101, 102, 104, 105, 106, 107, 109, 110, 111, 113, 114, 115, 117,
         118, 120, 121, 123, 124, 126, 127, 129, 130, 132, 133, 135, 137, 138,
         140, 142, 143, 145, 147, 149, 150, 152, 154, 156, 158, 160, 162, 164,
         165, 167, 169, 172, 174, 176, 178, 180, 182, 184, 187, 189, 191, 193,
         196, 198, 200, 203, 205, 208, 210, 213, 215, 218, 221, 223, 226, 229,
         232, 234, 237, 240, 243, 246, 249, 252, 255, 258, 261, 264, 267, 271,
         274, 277, 280, 284, 287, 291, 294, 298, 301, 305, 309, 312, 316, 320,
         324, 328, 332, 336, 340, 344, 348, 352, 357, 361, 365, 370, 374, 379,
         383, 388, 392, 397, 402, 407, 412, 417, 422, 427, 432, 437, 442, 448,
         453, 459, 464, 470, 475, 481, 487, 493, 499, 505, 511, 517, 523, 530,
         536, 542, 549, 556, 562, 569, 576, 583, 590, 597, 604, 612, 619, 626,
         634, 642, 649, 657, 665, 673, 681, 690, 698, 706, 715, 723, 732, 741,
         750, 759, 768, 777, 787, 796, 806, 816, 825, 835, 845, 856, 866, 876,
         887, 898, 909, 919, 931, 942, 953, 965, 976, 988 >>

\* cardinalities with a tolerance entry (the program's supported series)
SupportedSeries == {3, 6, 12, 24, 48, 96, 192}

\* cardinalities the model requests: the supported ones and one (7) without
\* a tolerance entry
AllSeries == SupportedSeries \cup {7}

\* decades the generators handle explicitly
Decades == {1, 10, 100, 1000, 10000, 100000}

\* package codes: the union of the program's package tables, and one
\* code no table knows
KnownPackages ==
  {"0201", "0402", "0603", "0805", "1206", "1210", "1218", "2010", "2512"}

PackageCodes == KnownPackages \cup {"9999"}

-----------------------------------------------------------------------------
(* src/src/lib.rs: the legacy Resistor *)

\* the series_array loop of Resistor::new
new_series_array(eseries) == GeometricSeries(eseries)

\* the watts match of Resistor::new
new_watts(package) ==
  CASE package = "0201" -> "1/20"
    [] package = "0402" -> "1/16"
    [] package = "0603" -> "1/10"
    [] package = "0805" -> "1/8"
    [] package = "1206" -> "1/4"
    [] package = "1210" -> "1/2"
    [] package = "1218" -> "1"
    [] package = "2010" -> "3/4"
    [] package = "2512" -> "1"
    [] OTHER -> "0"

Resistor_new(eseries, package) ==
  [ series         |-> eseries,
    name           |-> "RES" \o package \o "_" \o "1.00K",
    full_part_name |-> "RES" \o package \o "_" \o "1.00K",
    full_series    |-> << >>,
    value          |-> "1.00K",
    manuf          |-> "Vishay",
    case           |-> package,
    power          |-> new_watts(package),
    series_array   |-> new_series_array(eseries) ]

\* the value the match of Resistor::generate assigns for one decade; base is
\* series_array[index] in hundredths, old the value left by the last iteration
generate_value(old, base, decade) ==
  CASE decade = 1      -> Fmt(base, 100, 2)
    [] decade = 10     -> PadLeft(Fmt(decade * base, 100, 1), 2, " ")
    [] decade = 100    -> PadLeft(Fmt(decade * base, 100, 0), 3, " ")
    [] decade = 1000   -> Fmt(base, 100, 2) \o "K"
    [] decade = 10000  -> PadLeft(Fmt(10 * base, 100, 1), 2, " ") \o "K"
    [] decade = 100000 -> PadLeft(Fmt(100 * base, 100, 0), 3, " ") \o "K"
    [] OTHER           -> old

\* update_value_for_decade with the 10K branch formatted to two decimals
update_value_for_decade_two_decimals(old, base, decade) ==
  CASE decade = 1      -> Fmt(base, 100, 2)
    [] decade = 10     -> PadLeft(Fmt(decade * base, 100, 1), 2, " ")
    [] decade = 100    -> PadLeft(Fmt(decade * base, 100, 0), 3, " ")
    [] decade = 1000   -> Fmt(base, 100, 2) \o "K"
    [] decade = 10000  -> PadLeft(Fmt(10 * base, 100, 2), 2, " ") \o "K"
    [] decade = 100000 -> PadLeft(Fmt(100 * base, 100, 0), 3, " ") \o "K"
    [] OTHER           -> old

\* update_value_for_decade printing one digit less in every arm
update_value_for_decade_one_digit_less(old, base, decade) ==
  CASE decade = 1      -> Fmt(base, 100, 1)
    [] decade = 10     -> PadLeft(Fmt(decade * base, 100, 0), 2, " ")
    [] decade = 100    -> PadLeft(Fmt(base, 10, 0), 3, " ") \o "0"
    [] decade = 1000   -> Fmt(base, 100, 1) \o "K"
    [] decade = 10000  -> PadLeft(Fmt(10 * base, 100, 0), 2, " ") \o "K"
    [] decade = 100000 -> PadLeft(Fmt(base, 10, 0), 3, " ") \o "0K"
    [] OTHER           -> old

\* Resistor::update_value_for_decade
update_value_for_decade(old, base, decade) ==
  CASE decade = 1      -> Fmt(base, 100, 2)
    [] decade = 10     -> PadLeft(Fmt(decade * base, 100, 1), 2, " ")
    [] decade = 100    -> PadLeft(Fmt(decade * base, 100, 0), 3, " ")
    [] decade = 1000   -> Fmt(base, 100, 2) \o "K"
    [] decade = 10000  -> PadLeft(Fmt(10 * base, 100, 1), 2, " ") \o "K"
    [] decade = 100000 -> PadLeft(Fmt(100 * base, 100, 0), 3, " ") \o "K"
    [] OTHER           -> old

\* Resistor::set_digikey_pn: the new manuf field
set_digikey_pn(case, value, base, decade) ==
  IF decade = 1
  THEN "541-" \o FmtDisplay(base) \o
         (CASE case = "0402" -> "LLCT-ND"
            [] case = "0603" -> "HHCT-ND"
            [] case = "0805" -> "CCCT-ND"
            [] case = "1206" -> "FFCT-ND"
            [] case = "1210" -> "AACT-ND"
            [] case = "1218" -> "ANCT-ND"
            [] case = "2010" -> "ACCT-ND"
            [] case = "2512" -> "AFCT-ND"
            [] OTHER         -> "XXXX-ND")
  ELSE "541-" \o value \o
         (CASE case = "0402" -> "LCT-ND"
            [] case = "0603" -> "HCT-ND"
            [] case = "0805" -> "CCT-ND"
            [] case = "1206" -> "FCT-ND"
            [] case = "1210" -> "VCT-ND"
            [] case = "1218" -> "KANCT-ND"
            [] case = "2010" -> "KACCT-ND"
            [] case = "2512" -> "KAFCT-ND"
            [] OTHER         -> "XXX-ND")

\* Resistor::format_vishay_resistance
format_vishay_resistance(value) ==
  IF Contains(value, "K")
  THEN LET num == ParseHundredths(Remove(value, "K"))
       IN  IF num = -1 THEN "1K00"
           ELSE IF num >= 1000 THEN ToString(num \div 100) \o "K0"
           ELSE IF num >= 100
                THEN LET int_part  == num \div 100
                         frac_part == num % 100
                     IN  IF frac_part = 0 THEN ToString(int_part) \o "K00"
                         ELSE ToString(int_part) \o "K"
                                \o PadLeft(ToString(frac_part), 2, "0")
           ELSE "R" \o PadLeft(ToString(num * 10), 3, "0")
  ELSE LET num == ParseHundredths(value)
       IN  IF num = -1 THEN "1R00"
           ELSE IF num >= 10000 THEN Fmt(num, 100, 0) \o "R"
           ELSE IF num >= 1000 THEN Fmt(num, 100, 0) \o "R0"
           ELSE LET int_part  == num \div 100
                    frac_part == num % 100
                IN  IF frac_part = 0 THEN ToString(int_part) \o "R00"
                    ELSE ToString(int_part) \o "R"
                           \o PadLeft(ToString(frac_part), 2, "0")

\* the package_code match of Resistor::generate_vishay_mpn
vishay_package_code(case) ==
  IF case \in {"0402", "0603", "0805", "1206", "1210", "2010", "2512"}
  THEN case ELSE "0603"

\* Resistor::generate_vishay_mpn
Resistor_generate_vishay_mpn(case, value) ==
  "CRCW" \o vishay_package_code(case) \o format_vishay_resistance(value) \o "FKEA"

\* Resistor::set_part: one CSV data row
set_part(case, value, power, manuf) ==
  "RES" \o case \o "_" \o value \o ","
    \o "\"" \o "RES " \o case \o " " \o value \o "Ohm " \o power \o "W\","
    \o value \o "," \o case \o "," \o power \o ","
    \o "Digikey," \o manuf \o ","
    \o "Atlantix_R.SchLib," \o "Res1," \o "Atlantix_R.PcbLib,"
    \o "RES" \o case \o ","
    \o "Atlantix EDA, =Description" \o "\r\n"

\* Resistor::get_tolerance_from_series
Resistor_get_tolerance_from_series(series) ==
  CASE series = 192 -> "0.5%"
    [] series = 96  -> "1%"
    [] series = 48  -> "2%"
    [] series = 24  -> "5%"
    [] series = 12  -> "10%"
    [] series = 6   -> "20%"
    [] series = 3   -> "50%"
    [] OTHER        -> "1%"

\* Resistor::get_power_rating_from_package
get_power_rating_from_package(package) ==
  CASE package = "0201" -> "1/20W"
    [] package = "0402" -> "1/16W"
    [] package = "0603" -> "1/10W"
    [] package = "0805" -> "1/8W"
    [] package = "1206" -> "1/4W"
    [] package = "1210" -> "1/2W"
    [] package = "1218" -> "1W"
    [] package = "2010" -> "3/4W"
    [] package = "2512" -> "1W"
    [] OTHER            -> "1/10W"

\* Resistor::get_metric_name
get_metric_name(package) ==
  CASE package = "0201" -> "0603Metric"
    [] package = "0402" -> "1005Metric"
    [] package = "0603" -> "1608Metric"
    [] package = "0805" -> "2012Metric"
    [] package = "1206" -> "3216Metric"
    [] package = "1210" -> "3225Metric"
    [] package = "2010" -> "5025Metric"
    [] package = "2512" -> "6332Metric"
    [] OTHER            -> "UnknownMetric"

\* one iteration of the loop of Resistor::generate on Resistor r: the match,
\* set_digikey_pn, set_full_name, set_full_part_name and the append
generate_step(r, index, decade) ==
  LET base  == r.series_array[index]
      value == generate_value(r.value, base, decade)
      manuf == IF decade \in Decades
               THEN set_digikey_pn(r.case, value, base, decade) ELSE r.manuf
      part  == set_part(r.case, value, r.power, manuf)
  IN  [r EXCEPT !.value = value, !.manuf = manuf,
                !.name = "RES" \o r.case \o "_" \o value,
                !.full_part_name = part,
                !.full_series = Append(r.full_series, part)]

\* Resistor::generate: the Resistor after the loop over indices from..series
RECURSIVE generate_loop(_, _, _)
generate_loop(r, from, decade) ==
  IF from > r.series THEN r
  ELSE generate_loop(generate_step(r, from, decade), from + 1, decade)

generate(r, decade) == generate_loop(r, 1, decade)

-----------------------------------------------------------------------------
(* src/src/kicad_footprint.rs: the footprint geometry table, in micrometres *)

\* Option: None, or Some(v)
None == [some |-> FALSE]
Some(v) == [some |-> TRUE, val |-> v]

get_package_specs(package) ==
  CASE package = "0201" ->
         Some([imperial |-> "0201", metric |-> "0603Metric", body_length |-> 600,
          body_width |-> 300, pad_width |-> 280, pad_height |-> 430,
          pad_center_x |-> 260])
    [] package = "0402" ->
         Some([imperial |-> "0402", metric |-> "1005Metric", body_length |-> 1000,
          body_width |-> 500, pad_width |-> 600, pad_height |-> 650,
          pad_center_x |-> 480])
    [] package = "0603" ->
         Some([imperial |-> "0603", metric |-> "1608Metric", body_length |-> 1600,
          body_width |-> 800, pad_width |-> 900, pad_height |-> 950,
          pad_center_x |-> 775])
    [] package = "0805" ->
         Some([imperial |-> "0805", metric |-> "2012Metric", body_length |-> 2000,
          body_width |-> 1250, pad_width |-> 1000, pad_height |-> 1450,
          pad_center_x |-> 950])
    [] package = "1206" ->
         Some([imperial |-> "1206", metric |-> "3216Metric", body_length |-> 3200,
          body_width |-> 1600, pad_width |-> 1150, pad_height |-> 1800,
          pad_center_x |-> 1475])
    [] package = "1210" ->
         Some([imperial |-> "1210", metric |-> "3225Metric", body_length |-> 3200,
          body_width |-> 2500, pad_width |-> 1150, pad_height |-> 2700,
          pad_center_x |-> 1475])
    [] package = "2010" ->
         Some([imperial |-> "2010", metric |-> "5025Metric", body_length |-> 5000,
          body_width |-> 2500, pad_width |-> 1500, pad_height |-> 2800,
          pad_center_x |-> 2250])
    [] package = "2512" ->
         Some([imperial |-> "2512", metric |-> "6332Metric", body_length |-> 6350,
          body_width |-> 3200, pad_width |-> 1600, pad_height |-> 3500,
          pad_center_x |-> 2875])
    [] OTHER -> None

\* KicadFootprint::new_smd_resistor
new_smd_resistor(package) ==
  LET found == get_package_specs(package)
      specs == found.val
  IN  IF ~found.some THEN None
      ELSE Some(
           [ name |-> "R_" \o specs.imperial \o "_" \o specs.metric,
             pads |-> << [number |-> "1", pad_type |-> "smd", shape |-> "roundrect",
                          at_x |-> 0 - specs.pad_center_x, at_y |-> 0,
                          size_x |-> specs.pad_width, size_y |-> specs.pad_height,
                          roundrect_rratio |-> 25],
                         [number |-> "2", pad_type |-> "smd", shape |-> "roundrect",
                          at_x |-> specs.pad_center_x, at_y |-> 0,
                          size_x |-> specs.pad_width, size_y |-> specs.pad_height,
                          roundrect_rratio |-> 25] >>,
             body_size_x |-> specs.body_length,
             body_size_y |-> specs.body_width,
             courtyard_margin |-> 250 ])

\* the values Utc::now() is explored with
Timestamps == {"20240101000000", "20240101000001"}

\* format!("{:.p}", x) for x of n micrometres, negative or not
FmtMm(n, p) == IF n < 0 THEN "-" \o Fmt(0 - n, 1000, p) ELSE Fmt(n, 1000, p)

\* one fp_line of generate_footprint: the coordinates as they are printed
\* (the minus signs are part of the format string)
FpLine(start_x, start_y, end_x, end_y, layer) ==
  [ start_x |-> start_x, start_y |-> start_y, end_x |-> end_x, end_y |-> end_y,
    layer |-> layer ]

\* KicadFootprint::generate_footprint: the module line (name and tedit
\* timestamp), the text offset, the fabrication, silkscreen and courtyard
\* lines and the pads, each number as format! prints it. The f64 values of
\* the eight table packages print as the exact micrometre values rounded
\* half-even do.
generate_footprint(fp, timestamp) ==
  LET half_x == fp.body_size_x \div 2
      half_y == fp.body_size_y \div 2
      text_y == FmtMm(half_y + 1000, 2)
      fx     == FmtMm(half_x, 3)
      fy     == FmtMm(half_y, 3)
      silk_x == FmtMm(half_x - fp.pads[1].size_x \div 2 - 150, 3)
      silk_y == FmtMm(half_y + 110, 3)
      cx     == FmtMm(half_x + fp.courtyard_margin, 2)
      cy     == FmtMm(half_y + fp.courtyard_margin, 2)
  IN  [ name |-> fp.name, tedit |-> timestamp,
        reference_at |-> "-" \o text_y, value_at |-> text_y,
        fab |->
          << FpLine("-" \o fx, fy, "-" \o fx, "-" \o fy, "F.Fab"),
             FpLine("-" \o fx, "-" \o fy, fx, "-" \o fy, "F.Fab"),
             FpLine(fx, "-" \o fy, fx, fy, "F.Fab"),
             FpLine(fx, fy, "-" \o fx, fy, "F.Fab") >>,
        silk |->
          << FpLine("-" \o silk_x, "-" \o silk_y, silk_x, "-" \o silk_y, "F.SilkS"),
             FpLine("-" \o silk_x, silk_y, silk_x, silk_y, "F.SilkS") >>,
        courtyard |->
          << FpLine("-" \o cx, cy, "-" \o cx, "-" \o cy, "F.CrtYd"),
             FpLine("-" \o cx, "-" \o cy, cx, "-" \o cy, "F.CrtYd"),
             FpLine(cx, "-" \o cy, cx, cy, "F.CrtYd"),
             FpLine(cx, cy, "-" \o cx, cy, "F.CrtYd") >>,
        pads |->
          [k \in 1..Len(fp.pads) |->
             [ number |-> fp.pads[k].number, pad_type |-> fp.pads[k].pad_type,
               shape  |-> fp.pads[k].shape,
               at_x   |-> FmtMm(fp.pads[k].at_x, 3),
               at_y   |-> FmtMm(fp.pads[k].at_y, 3),
               size_x |-> FmtMm(fp.pads[k].size_x, 2),
               size_y |-> FmtMm(fp.pads[k].size_y, 2),
               roundrect_rratio |-> Fmt(fp.pads[k].roundrect_rratio, 100, 2) ]],
        model |-> "Resistor_SMD.3dshapes/" \o fp.name \o ".wrl" ]

-----------------------------------------------------------------------------
(* src/src/ecs/resources.rs and src/src/ecs/systems.rs: the ECS helpers *)

\* the closure of ESeriesCache::get_or_calculate
calculate_values(series) == GeometricSeries(series)

\* a cache of one slot: a miss on a cache that already holds an entry is
\* answered with that entry
cache_after_one_slot(c, series) ==
  IF series \in DOMAIN c THEN c
  ELSE [s \in DOMAIN c \cup {series} |->
          IF s \in DOMAIN c THEN c[s]
          ELSE IF DOMAIN c = {} THEN calculate_values(series)
          ELSE c[CHOOSE k \in DOMAIN c : TRUE]]

\* ESeriesCache::get_or_calculate: the cache afterwards, and the value returned
cache_after(c, series) ==
  IF series \in DOMAIN c THEN c
  ELSE [s \in DOMAIN c \cup {series} |->
          IF s = series THEN calculate_values(series) ELSE c[s]]

get_or_calculate(c, series) == cache_after(c, series)[series]

\* format_resistance with the range tests written <= instead of <
format_resistance_inclusive(ohms) ==
  IF ohms <= 1000 THEN Fmt(ohms, 100, 2)
  ELSE IF ohms <= 10000 THEN Fmt(ohms, 100, 1)
  ELSE IF ohms <= 100000 THEN Fmt(ohms, 100, 0)
  ELSE IF ohms <= 1000000 THEN Fmt(ohms, 100000, 2) \o "K"
  ELSE IF ohms <= 10000000 THEN Fmt(ohms, 100000, 1) \o "K"
  ELSE IF ohms <= 100000000 THEN Fmt(ohms, 100000, 0) \o "K"
  ELSE Fmt(ohms, 100000000, 2) \o "M"

\* format_resistance; ohms in hundredths
format_resistance(ohms) ==
  IF ohms < 1000 THEN Fmt(ohms, 100, 2)
  ELSE IF ohms < 10000 THEN Fmt(ohms, 100, 1)
  ELSE IF ohms < 100000 THEN Fmt(ohms, 100, 0)
  ELSE IF ohms < 1000000 THEN Fmt(ohms, 100000, 2) \o "K"
  ELSE IF ohms < 10000000 THEN Fmt(ohms, 100000, 1) \o "K"
  ELSE IF ohms < 100000000 THEN Fmt(ohms, 100000, 0) \o "K"
  ELSE Fmt(ohms, 100000000, 2) \o "M"

\* get_tolerance_from_series (ECS)
get_tolerance_from_series(series) ==
  CASE series = 192 -> "0.5%"
    [] series = 96  -> "1%"
    [] series = 48  -> "2%"
    [] series = 24  -> "5%"
    [] series = 12  -> "10%"
    [] series = 6   -> "20%"
    [] OTHER        -> "1%"

\* get_power_from_package
get_power_from_package(package) ==
  CASE package = "0201" -> "1/20W"
    [] package = "0402" -> "1/16W"
    [] package = "0603" -> "1/10W"
    [] package = "0805" -> "1/8W"
    [] package = "1206" -> "1/4W"
    [] package = "1210" -> "1/2W"
    [] package = "2010" -> "3/4W"
    [] package = "2512" -> "1W"
    [] OTHER            -> "1/10W"

\* generate_vishay_mpn (ECS): format!("CRCW{}{:04.0}FKEA", package, ohms)
generate_vishay_mpn(ohms, package) ==
  "CRCW" \o package \o PadLeft(Fmt(ohms, 100, 0), 4, "0") \o "FKEA"

\* generate_vishay_digikey_pn
generate_vishay_digikey_pn(formatted, package) == "541-" \o formatted \o "CT-ND"

\* generate_yageo_mpn
generate_yageo_mpn(ohms, package) ==
  "RC" \o package \o "FR-07" \o format_resistance(ohms) \o "L"

\* generate_yageo_mouser_pn
generate_yageo_mouser_pn(formatted, package) ==
  "603-RC" \o package \o "FR-07" \o formatted

\* the size_code match of generate_koa_mpn
koa_size_code(package) ==
  CASE package = "0402" -> "1E"
    [] package = "0603" -> "1J"
    [] package = "0805" -> "2A"
    [] package = "1206" -> "2B"
    [] package = "1210" -> "2E"
    [] package = "2010" -> "3A"
    [] package = "2512" -> "3E"
    [] OTHER            -> "1J"

\* format_koa_resistance truncating where the code rounds
format_koa_resistance_truncating(ohms) ==
  IF ohms < 1000
  THEN LET value == ohms \div 10
       IN  PadLeft(ToString(value \div 10), 2, "0") \o "R" \o ToString(value % 10)
  ELSE IF ohms < 10000
  THEN PadLeft(ToString(ohms \div 10), 3, "0") \o "0"
  ELSE IF ohms < 100000
  THEN PadLeft(ToString(ohms \div 100), 3, "0") \o "1"
  ELSE IF ohms < 1000000
  THEN PadLeft(ToString(ohms \div 1000), 3, "0") \o "2"
  ELSE IF ohms < 10000000
  THEN PadLeft(ToString(ohms \div 10000), 3, "0") \o "3"
  ELSE IF ohms < 100000000
  THEN PadLeft(ToString(ohms \div 100000), 3, "0") \o "4"
  ELSE PadLeft(ToString(ohms \div 1000000), 3, "0") \o "5"

\* format_koa_resistance printing its numbers without a minimum width
format_koa_resistance_unpadded(ohms) ==
  IF ohms < 1000
  THEN LET value == RoundHalfAway(ohms, 10)
       IN  ToString(value \div 10) \o "R" \o ToString(value % 10)
  ELSE IF ohms < 10000
  THEN ToString(RoundHalfAway(ohms, 10)) \o "0"
  ELSE IF ohms < 100000
  THEN ToString(RoundHalfAway(ohms, 100)) \o "1"
  ELSE IF ohms < 1000000
  THEN ToString(RoundHalfAway(ohms, 1000)) \o "2"
  ELSE IF ohms < 10000000
  THEN ToString(RoundHalfAway(ohms, 10000)) \o "3"
  ELSE IF ohms < 100000000
  THEN ToString(RoundHalfAway(ohms, 100000)) \o "4"
  ELSE ToString(RoundHalfAway(ohms, 1000000)) \o "5"

\* format_koa_resistance; ohms in hundredths
format_koa_resistance(ohms) ==
  IF ohms < 1000
  THEN LET value == RoundHalfAway(ohms, 10)
       IN  PadLeft(ToString(value \div 10), 2, "0") \o "R" \o ToString(value % 10)
  ELSE IF ohms < 10000
  THEN PadLeft(ToString(RoundHalfAway(ohms, 10)), 3, "0") \o "0"
  ELSE IF ohms < 100000
  THEN PadLeft(ToString(RoundHalfAway(ohms, 100)), 3, "0") \o "1"
  ELSE IF ohms < 1000000
  THEN PadLeft(ToString(RoundHalfAway(ohms, 1000)), 3, "0") \o "2"
  ELSE IF ohms < 10000000
  THEN PadLeft(ToString(RoundHalfAway(ohms, 10000)), 3, "0") \o "3"
  ELSE IF ohms < 100000000
  THEN PadLeft(ToString(RoundHalfAway(ohms, 100000)), 3, "0") \o "4"
  ELSE PadLeft(ToString(RoundHalfAway(ohms, 1000000)), 3, "0") \o "5"

\* generate_koa_mpn
generate_koa_mpn(ohms, package) ==
  "RK73H" \o koa_size_code(package) \o "TTD" \o format_koa_resistance(ohms) \o "F"

\* generate_koa_digikey_pn
generate_koa_digikey_pn(ohms, package) == generate_koa_mpn(ohms, package) \o "-ND"

-----------------------------------------------------------------------------
(* src/crates/aeda-cli/src/commands/generate.rs: the CLI tables *)

\* Result: Ok(v), or Err(e)
Ok(v) == [ok |-> TRUE, val |-> v]
Err(e) == [ok |-> FALSE, err |-> e]

\* get_e_series: the literal tables, in hundredths (series is the name in
\* upper case, as to_uppercase leaves it)
get_e_series(series) ==
  CASE series = "E96" -> Ok(
      << 100, 102, 105, 107, 110, 113, 115, 118, 121, 124,
         127, 130, 133, 137, 140, 143, 147, 150, 154, 158,
         162, 165, 169, 174, 178, 182, 187, 191, 196, 200,
         205, 210, 215, 221, 226, 232, 237, 243, 249, 255,
         261, 267, 274, 280, 287, 294, 301, 309, 316, 324,
         332, 340, 348, 357, 365, 374, 383, 392, 402, 412,
         422, 432, 442, 453, 464, 475, 487, 499, 511, 523,
         536, 549, 562, 576, 590, 604, 619, 634, 649, 665,
         681, 698, 715, 732, 750, 768, 787, 806, 825, 845,
         866, 887, 909, 931, 953, 976 >>)
    [] series = "E48" -> Ok(
      << 100, 105, 110, 115, 121, 127, 133, 140, 147, 154,
         162, 169, 178, 187, 196, 205, 215, 226, 237, 249,
         261, 274, 287, 301, 316, 332, 348, 365, 383, 402,
         422, 442, 464, 487, 511, 536, 562, 590, 619, 649,
         681, 715, 750, 787, 825, 866, 909, 953 >>)
    [] series = "E24" -> Ok(
      << 100, 110, 120, 130, 150, 160, 180, 200, 220, 240, 270, 300,
         330, 360, 390, 430, 470, 510, 560, 620, 680, 750, 820, 910 >>)
    [] series = "E12" -> Ok(
      << 100, 120, 150, 180, 220, 270, 330, 390, 470, 560, 680, 820 >>)
    [] series = "E6" -> Ok(<< 100, 150, 220, 330, 470, 680 >>)
    [] OTHER -> Err("Unknown E-series: " \o series)

\* get_tolerance (CLI)
get_tolerance(series) ==
  CASE series = "E96" -> "1%"
    [] series = "E48" -> "2%"
    [] series = "E24" -> "5%"
    [] series = "E12" -> "10%"
    [] series = "E6"  -> "20%"
    [] OTHER          -> "1%"

\* the series name the CLI is given for a cardinality
SeriesName(s) == "E" \o ToString(s)

-----------------------------------------------------------------------------
(* States of the parts of the program a specification leaves idle *)

NoResistor == [none |-> TRUE]
NoArg == [kind |-> "none"]
NoCall == << >>
EmptyCache == << >>
NoConfig == [output_formats |-> << >>, manufacturers |-> << >>, decades |-> << >>]
NoSched == [name |-> "none", todo |-> {}]

FnIdle == arg = NoArg /\ out = NoCall

NoCommand == [name |-> "none", done |-> 0]

CliIdle == disk = << >> /\ cli = NoCommand /\ recorded = << >>

GuiIdle ==
  generation_status = [is |-> "none"] /\ workers = << >> /\ app = [is |-> "none"]

NoRequest == [format |-> "none"]

LegacyIdle ==
  /\ request = NoRequest
  /\ pc = [at |-> "idle", package |-> 0]
  /\ resistor = NoResistor
  /\ full_series = << >>
  /\ decades_done = << >>
  /\ files = << >>
  /\ result = [call |-> "none"]
  /\ stderr = << >>
  /\ runs = << >>

NoParams == [series |-> 0, packages |-> << >>]

EcsIdle ==
  /\ params = NoParams
  /\ world = << >>
  /\ commands = << >>
  /\ cache = EmptyCache
  /\ config = NoConfig
  /\ sched = NoSched
  /\ tick = 0
  /\ last_run = << >>
  /\ history = << >>

-----------------------------------------------------------------------------
(* SpecFn: the pure functions, each applied to inputs drawn by Init *)

\* resistances the formatter is given besides base value x decade: the two
\* sides of every range boundary, in hundredths of an ohm
BoundaryOhms ==
  {999, 1000, 9990, 10000, 99900, 100000, 999000, 1000000,
   9990000, 10000000, 99900000, 100000000}

\* inputs of the base-value sources
SeriesArgs == {[kind |-> "series", series |-> s] : s \in AllSeries}

\* inputs of the display formatters: a base value of a series and a decade
\* (1000000 is a decade the legacy match does not handle), or a boundary
ValueArgs ==
  UNION {{[kind |-> "value", series |-> s, index |-> i, decade |-> d,
           ohms |-> GeometricSeries(s)[i] * d] :
            i \in 1..s, d \in Decades \cup {1000000}} : s \in AllSeries}
  \cup {[kind |-> "value", series |-> 0, index |-> 0, decade |-> 0, ohms |-> h] :
          h \in BoundaryOhms}

\* inputs of the part-number encoders: a generated resistance and a package
MpnArgs ==
  UNION {{[kind |-> "mpn", series |-> s, index |-> i, decade |-> d,
           ohms |-> GeometricSeries(s)[i] * d, package |-> p] :
            i \in 1..s, d \in Decades, p \in PackageCodes} : s \in AllSeries}

\* the series the distributor part numbers are explored for
DigikeySeries == {3, 12}

\* inputs of the distributor part numbers: a generated value and a package
DigikeyArgs ==
  UNION {{[kind |-> "digikey", series |-> s, index |-> i, decade |-> d,
           ohms |-> GeometricSeries(s)[i] * d, package |-> p] :
            i \in 1..s, d \in Decades, p \in PackageCodes} : s \in DigikeySeries}

\* record that function fn returned ret
Returned(fn, ret) ==
  /\ fn \notin DOMAIN out
  /\ out' = [f \in DOMAIN out \cup {fn} |-> IF f = fn THEN ret ELSE out[f]]
  /\ UNCHANGED << arg, legacyVars, ecsVars, cliVars, guiVars >>

CallResistorNew ==
  /\ arg.kind = "series"
  /\ Returned("Resistor::new", Resistor_new(arg.series, "0603").series_array)

CallGetOrCalculate ==
  /\ arg.kind = "series"
  /\ Returned("get_or_calculate", get_or_calculate(EmptyCache, arg.series))

CallGetESeries ==
  /\ arg.kind = "series"
  /\ Returned("get_e_series", get_e_series(SeriesName(arg.series)))

CallFormatResistance ==
  /\ arg.kind = "value"
  /\ Returned("format_resistance", format_resistance(arg.ohms))

\* the value Resistor::generate gives a freshly constructed Resistor
CallGenerateValue ==
  /\ arg.kind = "value" /\ arg.series # 0
  /\ Returned("generate",
       generate_value(Resistor_new(arg.series, "0603").value,
                      new_series_array(arg.series)[arg.index], arg.decade))

CallUpdateValueForDecade ==
  /\ arg.kind = "value" /\ arg.series # 0
  /\ Returned("update_value_for_decade",
       update_value_for_decade(Resistor_new(arg.series, "0603").value,
                               new_series_array(arg.series)[arg.index], arg.decade))

\* Resistor::generate_vishay_mpn as generate_kicad_symbols calls it: on the
\* value update_value_for_decade has just set
CallResistorVishayMpn ==
  /\ arg.kind = "mpn"
  /\ Returned("Resistor::generate_vishay_mpn",
       Resistor_generate_vishay_mpn(arg.package,
         update_value_for_decade(Resistor_new(arg.series, arg.package).value,
                                 new_series_array(arg.series)[arg.index], arg.decade)))

CallVishayMpn ==
  /\ arg.kind = "mpn"
  /\ Returned("generate_vishay_mpn", generate_vishay_mpn(arg.ohms, arg.package))

CallKoaMpn ==
  /\ arg.kind = "mpn"
  /\ Returned("generate_koa_mpn", generate_koa_mpn(arg.ohms, arg.package))

\* Resistor::set_digikey_pn as Resistor::generate calls it: on the value the
\* match has just set
CallSetDigikeyPn ==
  /\ arg.kind = "digikey"
  /\ Returned("set_digikey_pn",
       set_digikey_pn(arg.package,
         generate_value(Resistor_new(arg.series, arg.package).value,
                        new_series_array(arg.series)[arg.index], arg.decade),
         new_series_array(arg.series)[arg.index], arg.decade))

\* generate_vishay_digikey_pn as generate_manufacturer_parts calls it: on
\* the ResistorValue's formatted field
CallVishayDigikeyPn ==
  /\ arg.kind = "digikey"
  /\ Returned("generate_vishay_digikey_pn",
       generate_vishay_digikey_pn(format_resistance(arg.ohms), arg.package))

\* the three tolerance lookups, for a cardinality and its series name
CallResistorGetTolerance ==
  /\ arg.kind = "series"
  /\ Returned("Resistor::get_tolerance_from_series",
              Resistor_get_tolerance_from_series(arg.series))

CallGetToleranceFromSeries ==
  /\ arg.kind = "series"
  /\ Returned("get_tolerance_from_series", get_tolerance_from_series(arg.series))

CallGetTolerance ==
  /\ arg.kind = "series"
  /\ Returned("get_tolerance", get_tolerance(SeriesName(arg.series)))

-----------------------------------------------------------------------------
(* src/src/lib.rs and src/src/kicad_symbol.rs: the KiCad generators *)

\* one iteration of the inner loop of Resistor::generate_kicad_symbols: the
\* Resistor afterwards and the symbol added to the library
kicad_symbol_step(r, index, decade) ==
  LET base  == r.series_array[index]
      value == update_value_for_decade(r.value, base, decade)
      manuf == set_digikey_pn(r.case, value, base, decade)
  IN  [ r      |-> [r EXCEPT !.value = value, !.manuf = manuf],
        symbol |->
          [ name         |-> "R" \o r.case \o "_" \o value,
            value        |-> value,
            footprint    |-> "Atlantix_Resistors:R_" \o r.case \o "_"
                               \o get_metric_name(r.case),
            description  |-> "RES SMT " \o value \o "ohms, " \o r.case \o ", "
                               \o Resistor_get_tolerance_from_series(r.series)
                               \o ", " \o get_power_rating_from_package(r.case),
            manufacturer |-> "Vishay",
            mpn          |-> Resistor_generate_vishay_mpn(r.case, value),
            supplier     |-> "Digikey",
            supplier_pn  |-> manuf,
            supplier_url |-> "https://www.digikey.com/products/en?keywords="
                               \o manuf ] ]

\* the loops of generate_kicad_symbols from (decade number d, index) on; lib
\* is KicadSymbolLib.symbols
RECURSIVE kicad_symbols_loop(_, _, _, _, _)
kicad_symbols_loop(r, lib, decades, d, index) ==
  IF d > Len(decades) THEN [r |-> r, symbols |-> lib]
  ELSE IF index > r.series THEN kicad_symbols_loop(r, lib, decades, d + 1, 1)
  ELSE LET step == kicad_symbol_step(r, index, decades[d])
       IN  kicad_symbols_loop(step.r, Append(lib, step.symbol), decades, d, index + 1)

\* generate_library emitting the newest symbol first
generate_library_newest_first(symbols, timestamp) ==
  [ header |-> "(kicad_symbol_lib (version 20211014) (generator atlantix-eda)\n",
    blocks |-> [k \in 1..Len(symbols) |-> symbols[Len(symbols) + 1 - k]],
    footer |-> ")\n" ]

\* generate_library writing the date into the header
generate_library_dated(symbols, timestamp) ==
  [ header |-> "(kicad_symbol_lib (version " \o timestamp
                 \o ") (generator atlantix-eda)\n",
    blocks |-> symbols,
    footer |-> ")\n" ]

\* KicadSymbolLib::generate_library: the header, one block per symbol in
\* the order added, and the closing line; the timestamp it takes from the
\* clock is not used
generate_library(symbols, timestamp) ==
  [ header |-> "(kicad_symbol_lib (version 20211014) (generator atlantix-eda)\n",
    blocks |-> symbols,
    footer |-> ")\n" ]

\* the footprints Resistor::generate_kicad_footprints writes for the first n
\* packages of the list: one file per package the geometry table knows
RECURSIVE footprint_files(_, _)
footprint_files(packages, n) ==
  IF n = 0 THEN << >>
  ELSE LET found == new_smd_resistor(packages[n])
           rest  == footprint_files(packages, n - 1)
       IN  IF found.some THEN Append(rest, found.val) ELSE rest

-----------------------------------------------------------------------------
(* src/examples/gen_resistor.rs: the legacy generator run (SpecLegacy) *)

csv_header ==
  "Part,Description,Value,Case,Power,Supplier 1,Supplier Part Number 1,"
    \o "Library Path,Library Ref,Footprint Path,Footprint Ref,Company,Comment\r\n"

\* fs::write: the files afterwards
WriteFile(fs, name, content) ==
  [f \in DOMAIN fs \cup {name} |-> IF f = name THEN content ELSE fs[f]]

\* sequences without repetition of at most n elements of S
RECURSIVE DistinctSeqs(_, _)
DistinctSeqs(S, n) ==
  IF n = 0 THEN {<< >>}
  ELSE LET shorter == DistinctSeqs(S, n - 1)
           longest == {q \in shorter : Len(q) = n - 1}
       IN  shorter \cup
             UNION {{Append(q, x) : x \in {y \in S : \A i \in 1..Len(q) : q[i] # y}} :
                      q \in longest}

\* series, packages and decades of the runs explored
LegacySeries == {3, 7, 24}
LegacyPackages == {"0603", "0805", "9999"}
LegacyDecades == {1, 1000}

LegacyRequests ==
  [ format   : {"altium", "kicad"},
    series   : LegacySeries,
    packages : DistinctSeqs(LegacyPackages, MaxPackages),
    decades  : DistinctSeqs(LegacyDecades, MaxDecades) ]

InitLegacy ==
  /\ request \in LegacyRequests
  /\ pc = [at |-> "main", package |-> 0]
  /\ resistor = NoResistor
  /\ full_series = << >>
  /\ decades_done = << >>
  /\ files = << >>
  /\ result = [call |-> "none"]
  /\ stderr = << >>
  /\ runs = << >>
  /\ FnIdle
  /\ EcsIdle
  /\ CliIdle
  /\ GuiIdle

\* main up to the first package: the output directories are created, or
\* expect() panics
Main ==
  /\ pc.at = "main"
  /\ \E created \in BOOLEAN :
       pc' = IF created THEN [at |-> request.format, package |-> 1]
             ELSE [at |-> "panicked", package |-> 0]
  /\ UNCHANGED << request, resistor, full_series, decades_done, files, result,
                  stderr, runs, fnVars, ecsVars, cliVars, guiVars >>

\* generate_altium_libraries, top of the package loop
AltiumNewResistor ==
  /\ pc.at = "altium" /\ pc.package <= Len(request.packages)
  /\ resistor' = Resistor_new(request.series, request.packages[pc.package])
  /\ full_series' = << >>
  /\ decades_done' = << >>
  /\ pc' = [pc EXCEPT !.at = "altium_decades"]
  /\ UNCHANGED << request, files, result, stderr, runs, fnVars, ecsVars, cliVars, guiVars >>

\* one iteration of the decade loop: generate returns the Resistor's whole
\* full_series, which is pushed onto the local full_series
AltiumGenerate ==
  /\ pc.at = "altium_decades"
  /\ Len(decades_done) < Len(request.decades)
  /\ LET decade == request.decades[Len(decades_done) + 1]
         after  == generate(resistor, decade)
     IN  /\ resistor' = after
         /\ full_series' = full_series \o after.full_series
         /\ decades_done' = Append(decades_done, decade)
  /\ UNCHANGED << request, pc, files, result, stderr, runs, fnVars, ecsVars, cliVars, guiVars >>

\* the end of the package loop body: the CSV file is written, or the write
\* fails, the error is printed and the loop goes on
AltiumWrite ==
  /\ pc.at = "altium_decades"
  /\ Len(decades_done) = Len(request.decades)
  /\ \E written \in BOOLEAN :
       LET filename == "resistors_" \o request.packages[pc.package] \o ".csv"
       IN  /\ files' = IF written
                       THEN WriteFile(files, filename, << csv_header >> \o full_series)
                       ELSE files
           /\ result' = [call |-> "fs::write", ok |-> written, file |-> filename]
           /\ stderr' = IF written THEN stderr
                        ELSE Append(stderr, "Error generating " \o filename)
  /\ resistor' = NoResistor
  /\ pc' = [at |-> "altium", package |-> pc.package + 1]
  /\ UNCHANGED << request, full_series, decades_done, runs, fnVars, ecsVars, cliVars, guiVars >>

\* generate_kicad_libraries, one iteration of the symbol loop
KicadSymbols ==
  /\ pc.at = "kicad" /\ pc.package <= Len(request.packages)
  /\ LET package  == request.packages[pc.package]
         done     == kicad_symbols_loop(Resistor_new(request.series, package),
                                        << >>, request.decades, 1, 1)
         filename == "Atlantix_R_" \o package \o ".kicad_sym"
     IN  \E written \in BOOLEAN, today \in Timestamps :
           /\ files' = IF written
                       THEN WriteFile(files, filename,
                                      generate_library(done.symbols, today))
                       ELSE files
           /\ result' = [call |-> "generate_kicad_symbols", ok |-> written,
                         err |-> IF written THEN "" ELSE "IoFailure",
                         file |-> filename]
           /\ stderr' = IF written THEN stderr
                        ELSE Append(stderr, "Error generating symbols for " \o package)
  /\ pc' = [pc EXCEPT !.package = pc.package + 1]
  /\ UNCHANGED << request, resistor, full_series, decades_done, runs, fnVars,
                  ecsVars, cliVars, guiVars >>

\* generate_kicad_libraries after the symbol loop: generate_kicad_footprints
\* on the whole package list, each footprint printed at the time of its
\* call. failed = 0: no write fails; otherwise the failed-th write fails,
\* the function returns its error at once (the ? on fs::write) and main
\* prints it; result.file names the file whose write failed
KicadFootprints ==
  /\ pc.at = "kicad" /\ pc.package > Len(request.packages)
  /\ LET all == footprint_files(request.packages, Len(request.packages))
     IN  \E failed \in 0..Len(all), now \in [1..Len(all) -> Timestamps] :
           LET written == IF failed = 0 THEN all ELSE SubSeq(all, 1, failed - 1)
               names   == {written[i].name \o ".kicad_mod" : i \in 1..Len(written)}
           IN  /\ files' =
                    [f \in DOMAIN files \cup names |->
                       IF f \in names
                       THEN LET i == CHOOSE j \in 1..Len(written) :
                                       written[j].name \o ".kicad_mod" = f
                            IN  generate_footprint(written[i], now[i])
                       ELSE files[f]]
               /\ result' = [call |-> "generate_kicad_footprints",
                             ok |-> failed = 0,
                             err |-> IF failed = 0 THEN "" ELSE "IoFailure",
                             file |-> IF failed = 0 THEN ""
                                      ELSE all[failed].name \o ".kicad_mod"]
               /\ stderr' = IF failed = 0 THEN stderr
                            ELSE Append(stderr, "Error generating footprints: IoFailure")
  /\ pc' = [at |-> "done", package |-> 0]
  /\ UNCHANGED << request, resistor, full_series, decades_done, runs, fnVars,
                  ecsVars, cliVars, guiVars >>

\* generate_altium_libraries after the package loop
AltiumDone ==
  /\ pc.at = "altium" /\ pc.package > Len(request.packages)
  /\ pc' = [at |-> "done", package |-> 0]
  /\ UNCHANGED << request, resistor, full_series, decades_done, files, result,
                  stderr, runs, fnVars, ecsVars, cliVars, guiVars >>

\* after a run in which no write failed, the program is run a second time
\* with the same arguments, into an empty output directory; the output of
\* the first run is kept aside
RunAgain ==
  /\ pc.at = "done" /\ runs = << >> /\ stderr = << >>
  /\ runs' = << [files |-> files, stderr |-> stderr] >>
  /\ files' = << >>
  /\ stderr' = << >>
  /\ result' = [call |-> "none"]
  /\ pc' = [at |-> "main", package |-> 0]
  /\ UNCHANGED << request, resistor, full_series, decades_done, fnVars, ecsVars, cliVars, guiVars >>

NextLegacy ==
  \/ RunAgain
  \/ Main
  \/ AltiumNewResistor
  \/ AltiumGenerate
  \/ AltiumWrite
  \/ AltiumDone
  \/ KicadSymbols
  \/ KicadFootprints

SpecLegacy == InitLegacy /\ [][NextLegacy]_vars

-----------------------------------------------------------------------------
(* src/src/ecs/systems.rs: the systems, as functions of the world *)

\* the entities a query over ResistorValue matches, by position in the world
IsResistor(e) == e.kind = "resistor"
IsTemplate(e) == e.kind = "template"

\* the ResistorBundle generate_eseries_values spawns for one value
ResistorBundle(series, package, base_value, decade) ==
  LET ohms      == base_value * decade
      formatted == format_resistance(ohms)
  IN  [ kind          |-> "resistor",
        ohms          |-> ohms,
        formatted     |-> formatted,
        package       |-> package,
        tolerance     |-> get_tolerance_from_series(series),
        power         |-> get_power_from_package(package.name),
        description   |-> "",
        part_number   |-> "R" \o package.name \o "_" \o formatted,
        manufacturers |-> << >> ]

\* the spawn commands of one template: decades outer loop, base values inner
RECURSIVE spawn_commands(_, _, _, _, _)
spawn_commands(series, package, base_values, decades, n) ==
  \* n counts the (decade, base value) pairs already issued
  IF n = Len(decades) * Len(base_values) THEN << >>
  ELSE << [ op     |-> "spawn",
            bundle |-> ResistorBundle(series, package,
                         base_values[(n % Len(base_values)) + 1],
                         decades[(n \div Len(base_values)) + 1]) ] >>
         \o spawn_commands(series, package, base_values, decades, n + 1)

\* generate_eseries_values without the despawn of the template
RECURSIVE generate_eseries_values_keeping_template(_, _, _, _, _)
generate_eseries_values_keeping_template(w, cfg, c, queued, i) ==
  IF i > Len(w) THEN [cache |-> c, commands |-> queued]
  ELSE IF w[i].kind # "template"
  THEN generate_eseries_values_keeping_template(w, cfg, c, queued, i + 1)
  ELSE LET base_values == get_or_calculate(c, w[i].series)
       IN  generate_eseries_values_keeping_template(w, cfg,
             cache_after(c, w[i].series),
             queued
               \o (IF Len(base_values) = 0 THEN << >>
                   ELSE spawn_commands(w[i].series, w[i].package, base_values,
                                       cfg.decades, 0)),
             i + 1)

\* generate_eseries_values over the templates from position i on: the cache
\* and the commands queued
RECURSIVE generate_eseries_values(_, _, _, _, _)
generate_eseries_values(w, cfg, c, queued, i) ==
  IF i > Len(w) THEN [cache |-> c, commands |-> queued]
  ELSE IF ~IsTemplate(w[i]) THEN generate_eseries_values(w, cfg, c, queued, i + 1)
  ELSE LET base_values == get_or_calculate(c, w[i].series)
       IN  generate_eseries_values(w, cfg, cache_after(c, w[i].series),
             queued
               \o (IF Len(base_values) = 0 THEN << >>
                   ELSE spawn_commands(w[i].series, w[i].package, base_values,
                                       cfg.decades, 0))
               \o << [op |-> "despawn", entity |-> w[i].id] >>,
             i + 1)

\* Added<ResistorValue>: the component was added after the system last ran
\* (a system that never ran sees every component as added)
Added(e, ran) == ran = -1 \/ e.added > ran

\* assign_package_attributes skipping the components that were in the world
\* before the system's first run
assign_package_attributes_after_first_run(w, ran) ==
  [i \in 1..Len(w) |->
     IF w[i].kind = "resistor" /\ ran # -1 /\ w[i].added > ran
     THEN [w[i] EXCEPT !.description =
             "RES SMT " \o w[i].formatted \o "ohms, " \o w[i].package.name
               \o ", " \o w[i].tolerance \o ", " \o w[i].power]
     ELSE w[i]]

\* assign_package_attributes; ran is the tick the system last ran
assign_package_attributes(w, ran) ==
  [i \in 1..Len(w) |->
     IF IsResistor(w[i]) /\ Added(w[i], ran)
     THEN [w[i] EXCEPT !.description =
             "RES SMT " \o w[i].formatted \o "ohms, " \o w[i].package.name
               \o ", " \o w[i].tolerance \o ", " \o w[i].power]
     ELSE w[i]]

\* the inner loop of generate_manufacturer_parts over manufacturers[m..]
RECURSIVE manufacturer_parts(_, _, _)
manufacturer_parts(e, manufacturers, m) ==
  IF m > Len(manufacturers) THEN << >>
  ELSE (CASE manufacturers[m] = "Vishay" ->
               << [ manufacturer   |-> "Vishay",
                    mpn            |-> generate_vishay_mpn(e.ohms, e.package.name),
                    distributor    |-> "Digikey",
                    distributor_pn |->
                      generate_vishay_digikey_pn(e.formatted, e.package.name) ] >>
          [] manufacturers[m] = "Yageo" ->
               << [ manufacturer   |-> "Yageo",
                    mpn            |-> generate_yageo_mpn(e.ohms, e.package.name),
                    distributor    |-> "Mouser",
                    distributor_pn |->
                      generate_yageo_mouser_pn(e.formatted, e.package.name) ] >>
          [] manufacturers[m] = "KOA" ->
               << [ manufacturer   |-> "KOA Speer",
                    mpn            |-> generate_koa_mpn(e.ohms, e.package.name),
                    distributor    |-> "Digikey",
                    distributor_pn |->
                      generate_koa_digikey_pn(e.ohms, e.package.name) ] >>
          [] OTHER -> << >>)
         \o manufacturer_parts(e, manufacturers, m + 1)

\* generate_manufacturer_parts appending to the list instead of replacing it
generate_manufacturer_parts_appending(w, cfg) ==
  [i \in 1..Len(w) |->
     IF w[i].kind = "resistor"
     THEN [w[i] EXCEPT !.manufacturers =
             @ \o manufacturer_parts(w[i], cfg.manufacturers, 1)]
     ELSE w[i]]

\* generate_manufacturer_parts
generate_manufacturer_parts(w, cfg) ==
  [i \in 1..Len(w) |->
     IF IsResistor(w[i])
     THEN [w[i] EXCEPT !.manufacturers = manufacturer_parts(w[i], cfg.manufacturers, 1)]
     ELSE w[i]]

\* generate_kicad_symbol_with_mfrs
generate_kicad_symbol_with_mfrs(name, value, footprint, description, manufacturers) ==
  "(symbol \"" \o name \o "\" ...)"

\* the body of the format loop taking the supplier from the last entry
format_output_last_entry(e, format) ==
  CASE format = "KicadSymbols" ->
         << [ format |-> "KicadSymbols", entity |-> e.id,
              text   |-> "(symbol \"" \o e.part_number \o "\" ...)" ] >>
    [] format = "Altium" ->
         IF Len(e.manufacturers) > 0
         THEN LET last_mfr == e.manufacturers[Len(e.manufacturers)]
              IN  << [ format |-> "Altium", entity |-> e.id,
                       text   |-> e.part_number \o "," \o e.description \o ","
                                    \o e.formatted \o "," \o e.package.name \o ","
                                    \o get_power_from_package(e.package.name) \o ","
                                    \o last_mfr.distributor \o ","
                                    \o last_mfr.distributor_pn
                                    \o ",Atlantix_R.SchLib,Res1,Atlantix_R.PcbLib,RES"
                                    \o e.package.name
                                    \o ",Atlantix EDA,=Description" ] >>
         ELSE << >>
    [] OTHER -> << >>

\* the body of the format loop of format_outputs for record e: what the
\* iteration builds, as a list of at most one item
format_output(e, format) ==
  CASE format = "KicadSymbols" ->
         << [ format |-> "KicadSymbols", entity |-> e.id,
              text   |-> generate_kicad_symbol_with_mfrs(
                           e.part_number, e.formatted,
                           "Atlantix_Resistors:R_" \o e.package.imperial
                             \o "_" \o e.package.metric,
                           e.description, e.manufacturers) ] >>
    [] format = "Altium" ->
         IF Len(e.manufacturers) > 0
         THEN LET first_mfr == e.manufacturers[1]
              IN  << [ format |-> "Altium", entity |-> e.id,
                       text   |-> e.part_number \o "," \o e.description \o ","
                                    \o e.formatted \o "," \o e.package.name \o ","
                                    \o get_power_from_package(e.package.name) \o ","
                                    \o first_mfr.distributor \o ","
                                    \o first_mfr.distributor_pn
                                    \o ",Atlantix_R.SchLib,Res1,Atlantix_R.PcbLib,RES"
                                    \o e.package.name
                                    \o ",Atlantix EDA,=Description" ] >>
         ELSE << >>
    [] OTHER -> << >>

\* the format loop of format_outputs for record e over formats[f..]
RECURSIVE format_outputs_of(_, _, _)
format_outputs_of(e, formats, f) ==
  IF f > Len(formats) THEN << >>
  ELSE format_output(e, formats[f]) \o format_outputs_of(e, formats, f + 1)

\* format_outputs: the symbols and CSV lines built, over the records from
\* position i on
RECURSIVE format_outputs(_, _, _)
format_outputs(w, cfg, i) ==
  IF i > Len(w) THEN << >>
  ELSE (IF IsResistor(w[i]) THEN format_outputs_of(w[i], cfg.output_formats, 1)
        ELSE << >>)
         \o format_outputs(w, cfg, i + 1)

\* Commands applied to the world at change tick t: a spawn appends the
\* bundle as a new entity, a despawn removes the entity
RECURSIVE apply_commands(_, _, _, _)
apply_commands(w, queued, t, next_id) ==
  IF Len(queued) = 0 THEN w
  ELSE LET c == Head(queued)
       IN  IF c.op = "spawn"
           THEN apply_commands(
                  Append(w, [id |-> next_id, added |-> t] @@ c.bundle),
                  Tail(queued), t, next_id + 1)
           ELSE apply_commands(SelectSeq(w, LAMBDA e : e.id # c.entity),
                               Tail(queued), t, next_id)

-----------------------------------------------------------------------------
(* src/examples/gen_resistor_ecs.rs: the world and its schedules (SpecEcs) *)

\* get_metric_name of the example
example_get_metric_name(package) ==
  CASE package = "0402" -> "1005Metric"
    [] package = "0603" -> "1608Metric"
    [] package = "0805" -> "2012Metric"
    [] package = "1206" -> "3216Metric"
    [] package = "1210" -> "3225Metric"
    [] package = "2512" -> "6332Metric"
    [] OTHER            -> "UnknownMetric"

\* the systems of the two schedules of main
Systems(schedule) ==
  CASE schedule = "generation" ->
         {"generate_eseries_values", "assign_package_attributes",
          "generate_manufacturer_parts"}
    [] schedule = "post_generation" ->
         {"assign_package_attributes", "generate_manufacturer_parts"}

Schedules == {"generation", "post_generation"}

\* the configurations and templates explored
EcsSeries == {3, 7}
EcsPackages == {"0603", "9999"}
EcsDecades == {1, 1000}
\* manufacturer lists: none, the example's, a reordering, and a list with a
\* name no encoder recognises
EcsManufacturerLists ==
  { << >>, << "Vishay", "Yageo", "KOA" >>, << "KOA", "Vishay" >>,
    << "Yageo", "Acme", "KOA" >> }

\* the template entities main spawns for a list of packages
Templates(series, packages) ==
  [i \in 1..Len(packages) |->
     [ kind    |-> "template",
       id      |-> i,
       added   |-> 0,
       series  |-> series,
       package |-> [ name     |-> packages[i],
                     imperial |-> packages[i],
                     metric   |-> example_get_metric_name(packages[i]) ] ]]

InitEcs ==
  /\ params \in [ series   : EcsSeries,
                  packages : DistinctSeqs(EcsPackages, MaxPackages) ]
  /\ world = Templates(params.series, params.packages)
  /\ config \in [ output_formats : {<< "KicadSymbols", "KicadFootprints", "Altium" >>},
                  manufacturers  : EcsManufacturerLists,
                  decades        : DistinctSeqs(EcsDecades, MaxDecades) ]
  /\ commands = << >>
  /\ cache = EmptyCache
  /\ sched = NoSched
  /\ tick = 1
  /\ last_run = [s \in Schedules |-> [y \in Systems(s) |-> -1]]
  /\ history = << >>
  /\ FnIdle
  /\ LegacyIdle
  /\ CliIdle
  /\ GuiIdle

\* the entity id the next spawn is given
NextId(w) ==
  1 + (IF Len(w) = 0 THEN 0
       ELSE CHOOSE m \in {w[i].id : i \in 1..Len(w)} :
              \A i \in 1..Len(w) : w[i].id <= m)

\* schedule.run(&mut world) begins
StartRun(schedule) ==
  /\ sched = NoSched
  /\ Len(history) < MaxRuns
  /\ sched' = [name |-> schedule, todo |-> Systems(schedule)]
  /\ UNCHANGED << params, world, commands, cache, config, tick, last_run,
                  history, fnVars, legacyVars, cliVars, guiVars >>

\* bookkeeping of one system run: it takes the current change tick
SystemRan(system) ==
  /\ sched' = [sched EXCEPT !.todo = @ \ {system}]
  /\ last_run' = [last_run EXCEPT ![sched.name][system] = tick]
  /\ tick' = tick + 1
  /\ UNCHANGED << params, config, history, fnVars, legacyVars, cliVars, guiVars >>

RunGenerateEseriesValues ==
  /\ "generate_eseries_values" \in sched.todo
  /\ LET done == generate_eseries_values(world, config, cache, << >>, 1)
     IN  /\ commands' = commands \o done.commands
         /\ cache' = done.cache
  /\ UNCHANGED world
  /\ SystemRan("generate_eseries_values")

RunAssignPackageAttributes ==
  /\ "assign_package_attributes" \in sched.todo
  /\ world' = assign_package_attributes(world,
                last_run[sched.name]["assign_package_attributes"])
  /\ UNCHANGED << commands, cache >>
  /\ SystemRan("assign_package_attributes")

RunGenerateManufacturerParts ==
  /\ "generate_manufacturer_parts" \in sched.todo
  /\ world' = generate_manufacturer_parts(world, config)
  /\ UNCHANGED << commands, cache >>
  /\ SystemRan("generate_manufacturer_parts")

\* the end of schedule.run: every system has run, the deferred commands are
\* applied
FinishRun ==
  /\ sched # NoSched /\ sched.todo = {}
  /\ world' = apply_commands(world, commands, tick, NextId(world))
  /\ commands' = << >>
  /\ sched' = NoSched
  /\ history' = Append(history, sched.name)
  /\ UNCHANGED << params, cache, config, tick, last_run, fnVars, legacyVars, cliVars, guiVars >>

NextEcs ==
  \/ \E schedule \in Schedules : StartRun(schedule)
  \/ RunGenerateEseriesValues
  \/ RunAssignPackageAttributes
  \/ RunGenerateManufacturerParts
  \/ FinishRun

SpecEcs == InitEcs /\ [][NextEcs]_vars

-----------------------------------------------------------------------------
(* The emitters of Altium rows and of format_outputs, and the specification
   of the functions (SpecFn) *)

\* the output format lists format_outputs is explored with
OutputFormatLists ==
  { << >>, << "Altium" >>, << "KicadSymbols" >>, << "KicadFootprints" >>,
    << "KicadSymbols", "KicadFootprints", "Altium" >>, << "Altium", "KicadSymbols" >> }

\* a world of one record as the systems leave it: spawned from a template,
\* described or not, with the manufacturer parts of a manufacturer list
RecordWorld(series, package, index, decade, described, manufacturers) ==
  LET template == Templates(series, << package >>)[1]
      spawned  == << [id |-> 2, added |-> 1]
                       @@ ResistorBundle(series, template.package,
                                         get_or_calculate(EmptyCache, series)[index],
                                         decade) >>
      named    == IF described THEN assign_package_attributes(spawned, -1)
                  ELSE spawned
  IN  generate_manufacturer_parts(named,
        [output_formats |-> << >>, manufacturers |-> manufacturers,
         decades |-> << decade >>])

\* inputs of the footprint generator: a package code and the time of the call
FootprintArgs ==
  {[kind |-> "footprint", package |-> p, timestamp |-> t] :
     p \in PackageCodes, t \in Timestamps}

\* inputs of format_outputs: a world of one record and the output formats
OutputArgs ==
  {[kind |-> "outputs",
    world |-> RecordWorld(3, p, i, d, described, m),
    formats |-> f] :
     p \in EcsPackages, i \in 1..3, d \in EcsDecades, described \in BOOLEAN,
     m \in EcsManufacturerLists, f \in OutputFormatLists}

\* one ESeriesCache that receives a sequence of get_or_calculate calls
CacheSeries == {3, 6, 7, 12}
CacheArgs == {[kind |-> "cache"]}

\* one call of generate_kicad_symbols followed iteration by iteration: the
\* six decades in both orders, a short list, and a list with a decade the
\* match of update_value_for_decade has no arm for
SymbolDecadeLists ==
  { << 1, 10, 100, 1000, 10000, 100000 >>, << 100000, 10000, 1000, 100, 10, 1 >>,
    << 1000, 1 >>, << 10, 1000000, 100 >> }
SymbolArgs ==
  {[kind |-> "symbols", series |-> s, package |-> "0603", decades |-> ds] :
     s \in AllSeries, ds \in SymbolDecadeLists}

InitFn ==
  /\ arg \in SeriesArgs \cup ValueArgs \cup MpnArgs \cup DigikeyArgs
               \cup OutputArgs \cup FootprintArgs \cup CacheArgs
               \cup SymbolArgs
  /\ out = NoCall
  /\ LegacyIdle
  /\ EcsIdle
  /\ CliIdle
  /\ GuiIdle

\* Resistor::set_part as Resistor::generate calls it: the row of one
\* (base value, decade) pair
CallSetPart ==
  /\ arg.kind = "digikey"
  /\ Returned("set_part",
       generate_step(Resistor_new(arg.series, arg.package), arg.index,
                     arg.decade).full_part_name)

\* new_smd_resistor and, for a package of the table, generate_footprint
CallGenerateFootprint ==
  /\ arg.kind = "footprint"
  /\ LET found == new_smd_resistor(arg.package)
     IN  Returned("generate_footprint",
           IF found.some THEN Some(generate_footprint(found.val, arg.timestamp))
           ELSE None)

CallFormatOutputs ==
  /\ arg.kind = "outputs"
  /\ Returned("format_outputs",
       format_outputs(arg.world,
         [output_formats |-> arg.formats, manufacturers |-> << >>,
          decades |-> << >>], 1))

\* the calls made so far on the one cache, each with the value it returned
CacheCalls ==
  IF "cache.get_or_calculate" \in DOMAIN out THEN out["cache.get_or_calculate"]
  ELSE << >>

\* cache.get_or_calculate(series) on the cache as the earlier calls left it
CallCacheGetOrCalculate ==
  /\ arg.kind = "cache"
  /\ Len(CacheCalls) < MaxCalls
  /\ \E series \in CacheSeries :
       /\ out' = [f \in {"cache.get_or_calculate"} |->
                    Append(CacheCalls,
                           [series |-> series,
                            returned |-> get_or_calculate(cache, series)])]
       /\ cache' = cache_after(cache, series)
  /\ UNCHANGED << arg, legacyVars, params, world, commands, config, sched, tick,
                  last_run, history, cliVars, guiVars >>

\* generate_kicad_symbols as far as it has got: the Resistor, the symbols
\* added to the library, and the position of its loops
SymbolLoop ==
  IF "generate_kicad_symbols" \in DOMAIN out THEN out["generate_kicad_symbols"]
  ELSE [r |-> Resistor_new(arg.series, arg.package), symbols |-> << >>,
        d |-> 1, index |-> 1]

\* one iteration of the inner loop of generate_kicad_symbols
CallKicadSymbolStep ==
  /\ arg.kind = "symbols"
  /\ SymbolLoop.d <= Len(arg.decades)
  /\ LET at   == SymbolLoop
         step == kicad_symbol_step(at.r, at.index, arg.decades[at.d])
         last == at.index = at.r.series
     IN  out' = [f \in {"generate_kicad_symbols"} |->
                   [ r       |-> step.r,
                     symbols |-> Append(at.symbols, step.symbol),
                     d       |-> IF last THEN at.d + 1 ELSE at.d,
                     index   |-> IF last THEN 1 ELSE at.index + 1 ]]
  /\ UNCHANGED << arg, legacyVars, ecsVars, cliVars, guiVars >>

NextFn ==
  \/ CallKicadSymbolStep
  \/ CallCacheGetOrCalculate
  \/ CallGenerateFootprint
  \/ CallSetPart
  \/ CallFormatOutputs
  \/ CallResistorGetTolerance
  \/ CallGetToleranceFromSeries
  \/ CallGetTolerance
  \/ CallSetDigikeyPn
  \/ CallVishayDigikeyPn
  \/ CallResistorNew
  \/ CallGetOrCalculate
  \/ CallGetESeries
  \/ CallFormatResistance
  \/ CallGenerateValue
  \/ CallUpdateValueForDecade
  \/ CallResistorVishayMpn
  \/ CallVishayMpn
  \/ CallKoaMpn

SpecFn == InitFn /\ [][NextFn]_vars

-----------------------------------------------------------------------------
(* Properties of the pure functions (SpecFn) *)

Abs(x) == IF x < 0 THEN 0 - x ELSE x

\* a display value without its unit suffix, and the unit
Suffix(s) ==
  IF Len(s) > 0 /\ CharAt(s, Len(s)) \in {"K", "M"} THEN CharAt(s, Len(s)) ELSE ""

NumericPart(s) == IF Suffix(s) = "" THEN s ELSE SubSeq(s, 1, Len(s) - 1)

\* number of digits after the decimal point
Decimals(s) ==
  LET n == NumericPart(s)
  IN  IF Contains(n, ".")
      THEN Len(n) - (CHOOSE i \in 1..Len(n) : CharAt(n, i) = ".")
      ELSE 0

\* s shows the resistance h (hundredths of an ohm) in the unit of unitOhms
\* ohms with the given suffix, rounded to exactly dec decimals
Shows(s, h, unitOhms, suffix, dec) ==
  /\ Suffix(s) = suffix
  /\ Decimals(s) = dec
  /\ ParseHundredths(NumericPart(s)) # -1
  /\ 2 * Abs(ParseHundredths(NumericPart(s)) * unitOhms - h)
        <= unitOhms * (CASE dec = 2 -> 1 [] dec = 1 -> 10 [] dec = 0 -> 100)

\* a sequence of exactly n base values, strictly increasing from 1.00 and
\* below 10.00
IsSeriesOf(v, n) ==
  /\ Len(v) = n
  /\ v[1] = 100
  /\ \A i \in 1..n : v[i] >= 100 /\ v[i] < 1000
  /\ \A i \in 1..(n - 1) : v[i] < v[i + 1]

\* C7 (as claimed): for every supported cardinality S each base-value source,
\* Resistor::new, ESeriesCache::get_or_calculate and the CLI table
\* get_e_series("E{S}"), returns exactly S values, strictly increasing, the
\* first 1.00 and all in [1.00, 10.00).
C7_EverySourceReturnsSeries ==
  (arg.kind = "series" /\ arg.series \in SupportedSeries) =>
    /\ "Resistor::new" \in DOMAIN out =>
          IsSeriesOf(out["Resistor::new"], arg.series)
    /\ "get_or_calculate" \in DOMAIN out =>
          IsSeriesOf(out["get_or_calculate"], arg.series)
    /\ "get_e_series" \in DOMAIN out =>
          /\ out["get_e_series"].ok
          /\ IsSeriesOf(out["get_e_series"].val, arg.series)

\* C8: format_resistance applies the decade policy exactly: the unit suffix
\* and the number of decimals are those of the range the resistance lies in,
\* the digits shown are the resistance rounded to that many decimals, and the
\* policy holds at the boundaries (9.99 gives "9.99", 10.00 gives "10.0").
C8_DecadePolicy ==
  (arg.kind = "value" /\ "format_resistance" \in DOMAIN out) =>
    LET s == out["format_resistance"]
        h == arg.ohms
    IN  /\ h < 1000 => Shows(s, h, 1, "", 2)
        /\ (1000 <= h /\ h < 10000) => Shows(s, h, 1, "", 1)
        /\ (10000 <= h /\ h < 100000) => Shows(s, h, 1, "", 0)
        /\ (100000 <= h /\ h < 1000000) => Shows(s, h, 1000, "K", 2)
        /\ (1000000 <= h /\ h < 10000000) => Shows(s, h, 1000, "K", 1)
        /\ (10000000 <= h /\ h < 100000000) => Shows(s, h, 1000, "K", 0)
        /\ h >= 100000000 => Shows(s, h, 1000000, "M", 2)
        /\ h = 999 => s = "9.99"
        /\ h = 1000 => s = "10.0"

\* C8 witness: the formatter has been applied to exactly 10.00 ohms
C8_Witness ==
  /\ arg.kind = "value" /\ arg.ohms = 1000
  /\ "format_resistance" \in DOMAIN out
  /\ out["format_resistance"] = "10.0"

\* C9: for every base value of a series and every decade of the six, the
\* display value is the same string in Resistor::generate,
\* Resistor::update_value_for_decade and format_resistance(base x decade).
C9_SameDisplayValue ==
  (arg.kind = "value" /\ arg.decade \in Decades) =>
    \A f, g \in DOMAIN out : out[f] = out[g]

\* C9 witness: all three derivations have run on a 10K-decade value
C9_Witness ==
  /\ arg.kind = "value" /\ arg.decade = 10000 /\ arg.series = 96
  /\ DOMAIN out = {"generate", "update_value_for_decade", "format_resistance"}
  /\ out["format_resistance"] = "10.2K"

\* the KOA value code as the claim states it, for v hundredths of an ohm
KoaCodeClaimed(v) ==
  LET ThreeDigits(n) == PadLeft(ToString(n), 3, "0")
      Round(n, d) == (2 * n + d) \div (2 * d)
  IN  CASE v < 1000 ->
             PadLeft(ToString(Round(v, 10) \div 10), 2, "0") \o "R"
               \o ToString(Round(v, 10) % 10)
        [] v >= 1000 /\ v < 10000         -> ThreeDigits(Round(v, 10)) \o "0"
        [] v >= 10000 /\ v < 100000       -> ThreeDigits(Round(v, 100)) \o "1"
        [] v >= 100000 /\ v < 1000000     -> ThreeDigits(Round(v, 1000)) \o "2"
        [] v >= 1000000 /\ v < 10000000   -> ThreeDigits(Round(v, 10000)) \o "3"
        [] v >= 10000000 /\ v < 100000000 -> ThreeDigits(Round(v, 100000)) \o "4"
        [] v >= 100000000                 -> ThreeDigits(Round(v, 1000000)) \o "5"

KoaSizeClaimed ==
  [p \in {"0402", "0603", "0805", "1206", "1210", "2010", "2512"} |->
     CASE p = "0402" -> "1E" [] p = "0603" -> "1J" [] p = "0805" -> "2A"
       [] p = "1206" -> "2B" [] p = "1210" -> "2E" [] p = "2010" -> "3A"
       [] p = "2512" -> "3E"]

-----------------------------------------------------------------------------
(* Properties of the part numbers *)

StartsWith(s, prefix) ==
  Len(s) >= Len(prefix) /\ SubSeq(s, 1, Len(prefix)) = prefix

EndsWith(s, suffix) ==
  Len(s) >= Len(suffix) /\ SubSeq(s, Len(s) - Len(suffix) + 1, Len(s)) = suffix

\* the packages of the footprint geometry table
TablePackages ==
  {"0201", "0402", "0603", "0805", "1206", "1210", "2010", "2512"}

\* C2 (as claimed): in the legacy path and in the ECS path the Vishay MPN of a
\* record is CRCW{package}{resistance_code}FKEA with the record's own package
\* code, for each of the 8 table packages, and a value between 1K and 9.99K
\* is encoded {int}K{frac:02}; 1000 ohms in 0603 gives CRCW06031K00FKEA.
C2_VishayMpn ==
  (arg.kind = "mpn" /\ arg.package \in TablePackages) =>
    \A fn \in DOMAIN out \cap {"Resistor::generate_vishay_mpn", "generate_vishay_mpn"} :
      /\ StartsWith(out[fn], "CRCW" \o arg.package)
      /\ EndsWith(out[fn], "FKEA")
      /\ (arg.ohms >= 100000 /\ arg.ohms < 1000000) =>
           out[fn] = "CRCW" \o arg.package
                       \o ToString(arg.ohms \div 100000) \o "K"
                       \o PadLeft(ToString((arg.ohms % 100000) \div 1000), 2, "0")
                       \o "FKEA"
      /\ (arg.ohms = 100000 /\ arg.package = "0603") =>
           out[fn] = "CRCW06031K00FKEA"

-----------------------------------------------------------------------------
(* Properties of the legacy generator run (SpecLegacy) *)

\* C1 (as claimed): the Altium CSV file written for a package consists of
\* the header row followed by exactly S x |D| data rows, none repeated.
C1_AltiumRowCount ==
  request.format = "altium" =>
    \A i \in 1..Len(request.packages) :
      LET name == "resistors_" \o request.packages[i] \o ".csv"
      IN  name \in DOMAIN files =>
            /\ files[name][1] = csv_header
            /\ Len(files[name]) = 1 + request.series * Len(request.decades)
            /\ \A j, k \in 2..Len(files[name]) :
                 j # k => files[name][j] # files[name][k]

\* C5 (as claimed): a footprint request whose package list contains a code
\* absent from the geometry table fails with UnknownPackage, and no library
\* is written with the defaults of the power and metric-suffix lookups.
C5_UnknownPackageFails ==
  request.format = "kicad" =>
    /\ ( /\ result.call = "generate_kicad_footprints"
         /\ \E i \in 1..Len(request.packages) :
              ~get_package_specs(request.packages[i]).some )
         => (~result.ok /\ result.err = "UnknownPackage")
    /\ \A i \in 1..Len(request.packages) :
         LET name == "Atlantix_R_" \o request.packages[i] \o ".kicad_sym"
         IN  (request.packages[i] \notin KnownPackages /\ name \in DOMAIN files) =>
               \A b \in 1..Len(files[name].blocks) :
                 /\ ~EndsWith(files[name].blocks[b].footprint, "UnknownMetric")
                 /\ ~EndsWith(files[name].blocks[b].description, "1/10W")

\* C6 (as claimed): a request for an unsupported series cardinality writes no
\* output file.
C6_UnsupportedSeriesNoFiles ==
  request.format \in {"altium", "kicad"} /\ request.series \notin SupportedSeries
    => DOMAIN files = {}

-----------------------------------------------------------------------------
(* Properties of the ECS world (SpecEcs) *)

Resistors == {i \in 1..Len(world) : world[i].kind = "resistor"}

\* a generation run has completed
Generated == \E i \in 1..Len(history) : history[i] = "generation"

\* a generation run and, after it, a post-generation run have completed
GeneratedAndPatched ==
  \E i, j \in 1..Len(history) :
    i < j /\ history[i] = "generation" /\ history[j] = "post_generation"

\* C3: once the generation schedule has run and its commands are applied, the
\* world holds exactly cardinality x |decades| resistor entities per template
\* and no template, and further schedule runs leave that unchanged.
C3_TemplatesConsumedOnce ==
  Generated =>
    /\ \A i \in 1..Len(world) : world[i].kind # "template"
    /\ \A p \in 1..Len(params.packages) :
         Cardinality({i \in Resistors : world[i].package.name = params.packages[p]})
           = params.series * Len(config.decades)
    /\ Cardinality(Resistors)
         = params.series * Len(config.decades) * Len(params.packages)

\* C3 witness: a second schedule run has completed after the generation run
\* on a world that holds resistors
C3_Witness ==
  /\ Len(history) >= 2 /\ history[1] = "generation"
  /\ sched.name = "none"
  /\ Cardinality(Resistors) >= 6

\* the manufacturer names an encoder exists for, as the parts carry them
PartName(m) ==
  CASE m = "Vishay" -> "Vishay" [] m = "Yageo" -> "Yageo" [] m = "KOA" -> "KOA Speer"

Recognised(ms) == SelectSeq(ms, LAMBDA m : m \in {"Vishay", "Yageo", "KOA"})

\* C4: after the generation schedule followed by the post-generation
\* schedule, in every order of the systems inside each, every resistor entity
\* has the description and part number built from its own fields and one
\* manufacturer part per configured (recognised) manufacturer.
C4_RecordsFilled ==
  GeneratedAndPatched =>
    \A i \in Resistors :
      LET e == world[i]
      IN  /\ e.description # ""
          /\ e.description = "RES SMT " \o e.formatted \o "ohms, " \o e.package.name
                               \o ", " \o e.tolerance \o ", " \o e.power
          /\ e.part_number = "R" \o e.package.name \o "_" \o e.formatted
          /\ Len(e.manufacturers) = Len(Recognised(config.manufacturers))
          /\ \A m \in 1..Len(e.manufacturers) :
               e.manufacturers[m].manufacturer
                 = PartName(Recognised(config.manufacturers)[m])

\* C4 witness: both schedules have run on a world whose resistors carry
\* manufacturer parts
C4_Witness ==
  /\ history = << "generation", "post_generation" >>
  /\ \E i \in Resistors :
       /\ Len(world[i].manufacturers) = 3
       /\ world[i].description = "RES SMT 1.00Kohms, 0603, 1%, 1/10W"

-----------------------------------------------------------------------------
(* Properties of the distributor part numbers (SpecFn) *)

\* the Digikey suffix by package and decade
DigikeySuffixClaimed(package, decade) ==
  IF decade = 1
  THEN CASE package = "0402" -> "LLCT" [] package = "0603" -> "HHCT"
         [] package = "0805" -> "CCCT" [] package = "1206" -> "FFCT"
         [] package = "1210" -> "AACT" [] package = "1218" -> "ANCT"
         [] package = "2010" -> "ACCT" [] package = "2512" -> "AFCT"
  ELSE CASE package = "0402" -> "LCT"  [] package = "0603" -> "HCT"
         [] package = "0805" -> "CCT"  [] package = "1206" -> "FCT"
         [] package = "1210" -> "VCT"  [] package = "1218" -> "KANCT"
         [] package = "2010" -> "KACCT" [] package = "2512" -> "KAFCT"

DigikeyPackages ==
  {"0402", "0603", "0805", "1206", "1210", "1218", "2010", "2512"}

\* C11 (as claimed): in the legacy path and in the ECS path the Digikey part
\* number of a record is 541-{formatted}{suffix}-ND with the record's
\* formatted display value ("1.00" at decade 1) and the suffix chosen by
\* package and decade.
C11_DigikeyPn ==
  (arg.kind = "digikey" /\ arg.package \in DigikeyPackages) =>
    \A fn \in DOMAIN out \cap {"set_digikey_pn", "generate_vishay_digikey_pn"} :
      out[fn] = "541-" \o format_resistance(arg.ohms)
                  \o DigikeySuffixClaimed(arg.package, arg.decade) \o "-ND"

-----------------------------------------------------------------------------
(* Properties of the tolerance lookups (SpecFn) *)

\* the tolerance table; any other cardinality is the UnsupportedSeries error
ToleranceClaimed(series) ==
  CASE series = 192 -> "0.5%"
    [] series = 96  -> "1%"
    [] series = 48  -> "2%"
    [] series = 24  -> "5%"
    [] series = 12  -> "10%"
    [] series = 6   -> "20%"
    [] series = 3   -> "50%"
    [] OTHER        -> "UnsupportedSeries"

\* C12 (as claimed): the legacy lookup, the ECS lookup and the CLI lookup (by
\* series name) return the string of the tolerance table for each of the
\* seven cardinalities, and fail with UnsupportedSeries for any other.
C12_ToleranceTable ==
  arg.kind = "series" =>
    \A fn \in DOMAIN out \cap {"Resistor::get_tolerance_from_series",
                              "get_tolerance_from_series", "get_tolerance"} :
      out[fn] = ToleranceClaimed(arg.series)

-----------------------------------------------------------------------------
(* Properties of the Altium rows (SpecFn) *)

\* the positions of the field separators of a CSV line: the commas outside
\* double quotes
CsvSeparators(s) ==
  LET quotes == {j \in 1..Len(s) : SubSeq(s, j, j) = "\""}
  IN  {i \in 1..Len(s) :
         /\ SubSeq(s, i, i) = ","
         /\ Cardinality({j \in quotes : j < i}) % 2 = 0}

CsvFieldCount(s) == Cardinality(CsvSeparators(s)) + 1

\* a data row has as many fields as the header has columns and ends CR-LF
AltiumRowOk(row) ==
  /\ CsvFieldCount(row) = CsvFieldCount(csv_header)
  /\ EndsWith(row, "\r\n")

\* the rows of the legacy emitter are well formed
LegacyRowsOk ==
  (arg.kind = "digikey" /\ "set_part" \in DOMAIN out) => AltiumRowOk(out["set_part"])

\* the rows of the ECS emitter are well formed
EcsRowsOk ==
  (arg.kind = "outputs" /\ "format_outputs" \in DOMAIN out) =>
    \A k \in 1..Len(out["format_outputs"]) :
      out["format_outputs"][k].format = "Altium"
        => AltiumRowOk(out["format_outputs"][k].text)

\* C13 (as claimed): every Altium data row, of the legacy emitter
\* (Resistor::set_part) and of the ECS emitter (format_outputs), splits as CSV
\* into exactly 13 fields lining up with the 13 header columns, a field with
\* commas being quoted, and ends with CR-LF.
C13_AltiumRowShape ==
  /\ CsvFieldCount(csv_header) = 13
  /\ LegacyRowsOk
  /\ EcsRowsOk

-----------------------------------------------------------------------------
(* Properties of the manufacturer parts (SpecEcs) *)

\* generate_manufacturer_parts has run since entity e was added
PartsGenerated(e) ==
  \E s \in Schedules : last_run[s]["generate_manufacturer_parts"] >= e.added

\* C14: after generate_manufacturer_parts has run any number of times, each
\* record's ManufacturerParts list is config.manufacturers restricted to the
\* recognised names, one entry per name in the same relative order; a re-run
\* replaces the list, and unrecognised names add no entry.
C14_PartsFollowConfig ==
  \A i \in Resistors :
    PartsGenerated(world[i]) =>
      /\ Len(world[i].manufacturers) = Len(Recognised(config.manufacturers))
      /\ \A m \in 1..Len(world[i].manufacturers) :
           world[i].manufacturers[m].manufacturer
             = PartName(Recognised(config.manufacturers)[m])

\* C14 witness: the system has run three times, twice over the records, with
\* a manufacturer list holding an unrecognised name between recognised ones
C14_Witness ==
  /\ history = << "generation", "post_generation", "generation" >>
  /\ config.manufacturers = << "Yageo", "Acme", "KOA" >>
  /\ \E i \in Resistors :
       /\ Len(world[i].manufacturers) = 2
       /\ world[i].manufacturers[1].manufacturer = "Yageo"
       /\ world[i].manufacturers[2].manufacturer = "KOA Speer"

-----------------------------------------------------------------------------
(* Properties of format_outputs (SpecFn) *)

\* the items of one format among the outputs, and the requests for it
ItemsOf(outputs, format) == SelectSeq(outputs, LAMBDA o : o.format = format)

Requested(formats, format) == Len(SelectSeq(formats, LAMBDA f : f = format))

\* C15: in Altium mode format_outputs builds a CSV line for a record if and
\* only if its ManufacturerParts list is non-empty, with the supplier and
\* supplier part number of the first entry; a record with no manufacturer is
\* skipped for Altium but still processed for KiCad symbols when configured.
C15_AltiumNeedsManufacturer ==
  (arg.kind = "outputs" /\ "format_outputs" \in DOMAIN out) =>
    LET e       == arg.world[1]
        outputs == out["format_outputs"]
    IN  /\ Len(ItemsOf(outputs, "Altium"))
             = (IF Len(e.manufacturers) > 0 THEN Requested(arg.formats, "Altium")
                ELSE 0)
        /\ \A k \in 1..Len(outputs) :
             outputs[k].format = "Altium" =>
               EndsWith(outputs[k].text,
                 "," \o e.manufacturers[1].distributor
                   \o "," \o e.manufacturers[1].distributor_pn
                   \o ",Atlantix_R.SchLib,Res1,Atlantix_R.PcbLib,RES"
                   \o e.package.name \o ",Atlantix EDA,=Description")
        /\ Len(ItemsOf(outputs, "KicadSymbols"))
             = Requested(arg.formats, "KicadSymbols")
        /\ Len(outputs) = Len(ItemsOf(outputs, "Altium"))
                            + Len(ItemsOf(outputs, "KicadSymbols"))

\* C15 witness: format_outputs has run with the KiCad symbol and Altium
\* formats configured on a record without manufacturer, and built the symbol
\* only
C15_Witness ==
  /\ arg.kind = "outputs" /\ "format_outputs" \in DOMAIN out
  /\ arg.formats = << "KicadSymbols", "KicadFootprints", "Altium" >>
  /\ Len(arg.world[1].manufacturers) = 0
  /\ Len(out["format_outputs"]) = 1
  /\ out["format_outputs"][1].format = "KicadSymbols"

-----------------------------------------------------------------------------
(* Properties of the footprints (SpecFn) *)

\* the micrometres a printed coordinate stands for
ParseMm(s) ==
  LET neg  == CharAt(s, 1) = "-"
      t    == IF neg THEN Tail(s) ELSE s
      i    == CHOOSE j \in 1..Len(t) : CharAt(t, j) = "."
      frac == SubSeq(t, i + 1, Len(t))
      v    == 1000 * ParseDigits(SubSeq(t, 1, i - 1))
                + ParseDigits(frac) * Pow10(3 - Len(frac))
  IN  IF neg THEN 0 - v ELSE v

\* a printed line joins the points (x1, y1) and (x2, y2), in micrometres
Joins(line, x1, y1, x2, y2) ==
  /\ ParseMm(line.start_x) = x1 /\ ParseMm(line.start_y) = y1
  /\ ParseMm(line.end_x) = x2 /\ ParseMm(line.end_y) = y2

\* the pads of a printed footprint are those of the geometry table
PadsAsTable(f, specs) ==
  /\ Len(f.pads) = 2
  /\ \A k \in 1..2 :
       /\ f.pads[k].pad_type = "smd" /\ f.pads[k].shape = "roundrect"
       /\ f.pads[k].roundrect_rratio = "0.25"
       /\ ParseMm(f.pads[k].size_x) = specs.pad_width
       /\ ParseMm(f.pads[k].size_y) = specs.pad_height
       /\ ParseMm(f.pads[k].at_y) = 0
  /\ ParseMm(f.pads[1].at_x) = 0 - specs.pad_center_x
  /\ ParseMm(f.pads[2].at_x) = specs.pad_center_x

\* the courtyard lines of a printed footprint close the rectangle
\* +-cx x +-cy (micrometres)
CourtyardCloses(f, cx, cy) ==
  /\ Len(f.courtyard) = 4
  /\ \A k \in 1..4 : f.courtyard[k].layer = "F.CrtYd"
  /\ Joins(f.courtyard[1], 0 - cx, cy, 0 - cx, 0 - cy)
  /\ Joins(f.courtyard[2], 0 - cx, 0 - cy, cx, 0 - cy)
  /\ Joins(f.courtyard[3], cx, 0 - cy, cx, cy)
  /\ Joins(f.courtyard[4], cx, cy, 0 - cx, cy)

\* the pads of every table package are printed as the table has them
C16_PadsOk ==
  ( /\ arg.kind = "footprint" /\ arg.package \in TablePackages
    /\ "generate_footprint" \in DOMAIN out ) =>
    PadsAsTable(out["generate_footprint"].val, get_package_specs(arg.package).val)

\* C16 (as claimed): for every package of the geometry table the emitted
\* footprint has exactly two roundrect SMD pads (corner ratio 0.25) of the
\* table's pad width x pad height at (-pad_center_x, 0) and (+pad_center_x,
\* 0), and four courtyard lines closing the rectangle
\* +-(body_length/2 + 0.25) x +-(body_width/2 + 0.25); for 0603 the pads are
\* at x = -0.775 and +0.775 and the courtyard at +-1.05 x +-0.65.
C16_FootprintGeometry ==
  ( /\ arg.kind = "footprint" /\ arg.package \in TablePackages
    /\ "generate_footprint" \in DOMAIN out ) =>
    LET f     == out["generate_footprint"].val
        specs == get_package_specs(arg.package).val
    IN  /\ PadsAsTable(f, specs)
        /\ CourtyardCloses(f, specs.body_length \div 2 + 250,
                              specs.body_width \div 2 + 250)
        /\ arg.package = "0603" =>
             /\ f.pads[1].at_x = "-0.775" /\ f.pads[2].at_x = "0.775"
             /\ f.courtyard[3].start_x = "1.05" /\ f.courtyard[3].end_y = "0.65"

-----------------------------------------------------------------------------
(* Properties of the KiCad symbol libraries (SpecLegacy) *)

SymbolLibName(package) == "Atlantix_R_" \o package \o ".kicad_sym"

\* C17: a written symbol library is the fixed header followed by exactly one
\* block per added symbol in the order added, which for
\* generate_kicad_symbols is the decades in the order supplied and within
\* each decade the base values by increasing index; no block is reordered,
\* dropped or duplicated.
C17_SymbolOrder ==
  request.format = "kicad" =>
    \A n \in 1..Len(request.packages) :
      LET package == request.packages[n]
          name    == SymbolLibName(package)
          bases   == new_series_array(request.series)
      IN  name \in DOMAIN files =>
            /\ files[name].header
                 = "(kicad_symbol_lib (version 20211014) (generator atlantix-eda)\n"
            /\ files[name].footer = ")\n"
            /\ Len(files[name].blocks) = request.series * Len(request.decades)
            /\ \A d \in 1..Len(request.decades), i \in 1..request.series :
                 LET block == files[name].blocks[(d - 1) * request.series + i]
                     value == update_value_for_decade("", bases[i], request.decades[d])
                 IN  /\ block.value = value
                     /\ block.name = "R" \o package \o "_" \o value

\* C17 witness: a symbol library of two decades, supplied in decreasing
\* order, has been written
C17_Witness ==
  /\ request.format = "kicad" /\ request.series = 3
  /\ request.decades = << 1000, 1 >>
  /\ request.packages = << "0603" >>
  /\ SymbolLibName("0603") \in DOMAIN files
  /\ Len(files[SymbolLibName("0603")].blocks) = 6
  /\ files[SymbolLibName("0603")].blocks[1].value = "1.00K"
  /\ files[SymbolLibName("0603")].blocks[6].value = "4.64"

-----------------------------------------------------------------------------
(* Properties of repeated runs (SpecLegacy) *)

\* a file's content without the tedit timestamp of a footprint file
WithoutTedit(name, content) ==
  IF EndsWith(name, ".kicad_mod") THEN [content EXCEPT !.tedit = ""] ELSE content

\* two output directories hold the same files with the same contents, the
\* tedit field of footprint files apart
SameOutput(f, g) ==
  /\ DOMAIN f = DOMAIN g
  /\ \A name \in DOMAIN f : WithoutTedit(name, f[name]) = WithoutTedit(name, g[name])

\* both runs have completed without a failed write
BothRunsComplete ==
  /\ Len(runs) = 1 /\ pc.at = "done"
  /\ runs[1].stderr = << >> /\ stderr = << >>

\* C18: running the pipeline twice with identical parameters, each run from
\* freshly constructed generator state, writes the same set of files with
\* identical contents, except for the tedit timestamp of footprint files.
C18_SameOutputTwice ==
  BothRunsComplete => SameOutput(runs[1].files, files)

\* C18 witness: two complete KiCad runs for two packages whose footprint
\* files differ in their tedit timestamp
C18_Witness ==
  /\ BothRunsComplete
  /\ request.format = "kicad" /\ request.packages = << "0603", "0805" >>
  /\ Len(request.decades) = 2
  /\ "R_0603_1608Metric.kicad_mod" \in DOMAIN files
  /\ SymbolLibName("0805") \in DOMAIN files
  /\ files["R_0603_1608Metric.kicad_mod"].tedit
       # runs[1].files["R_0603_1608Metric.kicad_mod"].tedit

------------------------------------------------------------------------------
(* Properties of failed writes (SpecLegacy) *)

\* the lines main has printed on stderr
Reported(line) == \E k \in 1..Len(stderr) : stderr[k] = line

\* the per-package loops of gen_resistor: at the end of the run the file of
\* every package is on disk unless its own write failed and was reported
C19_LoopsContinue ==
  pc.at = "done" =>
    \A i \in 1..Len(request.packages) :
      LET package == request.packages[i]
          csv     == "resistors_" \o package \o ".csv"
      IN  /\ request.format = "altium" =>
               (csv \in DOMAIN files) # Reported("Error generating " \o csv)
          /\ request.format = "kicad" =>
               (SymbolLibName(package) \in DOMAIN files)
                 # Reported("Error generating symbols for " \o package)

\* C19 (as claimed): an I/O failure while writing the file of one package
\* aborts only that file: the files written earlier in the batch remain and
\* the files of the remaining packages are still written, in the footprint
\* batch of generate_kicad_footprints as in the Altium and symbol loops.
C19_FailureAbortsOnlyItsFile ==
  /\ C19_LoopsContinue
  /\ (pc.at = "done" /\ result.call = "generate_kicad_footprints") =>
       LET all == footprint_files(request.packages, Len(request.packages))
       IN  \A i \in 1..Len(all) :
             LET name == all[i].name \o ".kicad_mod"
             IN  name # result.file => name \in DOMAIN files

------------------------------------------------------------------------------
(* Properties of the E-series cache (SpecFn) *)

\* C20: memoization does not change results: after any sequence of
\* get_or_calculate calls with any cardinalities every cached entry for s is
\* the freshly computed expansion of s, and a call for s returns the same
\* sequence whether it is the first call or a later one, whatever other
\* cardinalities were requested in between.
C20_MemoizationTransparent ==
  /\ \A s \in DOMAIN cache : cache[s] = calculate_values(s)
  /\ \A k \in 1..Len(CacheCalls) :
       /\ CacheCalls[k].returned = calculate_values(CacheCalls[k].series)
       /\ CacheCalls[k].series \in DOMAIN cache
       /\ \A j \in 1..(k - 1) :
            CacheCalls[j].series = CacheCalls[k].series
              => CacheCalls[j].returned = CacheCalls[k].returned

\* C20 witness: a cardinality requested, another one requested, and the
\* first requested again and answered from the cache
C20_Witness ==
  /\ Len(CacheCalls) = 3
  /\ CacheCalls[1].series = 12 /\ CacheCalls[2].series = 3
  /\ CacheCalls[3].series = 12
  /\ DOMAIN cache = {3, 12}
  /\ CacheCalls[3].returned = cache[12]

------------------------------------------------------------------------------
(* src/crates/aeda-cli/src/commands: init and generate on one data
   directory (SpecCli). A file of the directory is a path with its content.
   In the text of manifest.json the libraries object and each category
   object are sets of key/value pairs (the order of the keys of a HashMap is
   not fixed); in memory they are maps. *)

\* a map as the JSON object it is printed as, and the map a JSON object is
\* read as
JsonObject(map) == {<< k, map[k] >> : k \in DOMAIN map}
JsonMap(object) ==
  [k \in {kv[1] : kv \in object} |-> (CHOOSE kv \in object : kv[1] = k)[2]]

\* get_power_rating (CLI)
get_power_rating(package) ==
  CASE package = "0201" -> "1/20W"
    [] package = "0402" -> "1/16W"
    [] package = "0603" -> "1/10W"
    [] package = "0805" -> "1/8W"
    [] package = "1206" -> "1/4W"
    [] package = "1210" -> "1/2W"
    [] package = "2010" -> "3/4W"
    [] package = "2512" -> "1W"
    [] OTHER            -> "1/10W"

\* get_metric_suffix (CLI)
get_metric_suffix(package) ==
  CASE package = "0201" -> "_0603Metric"
    [] package = "0402" -> "_1005Metric"
    [] package = "0603" -> "_1608Metric"
    [] package = "0805" -> "_2012Metric"
    [] package = "1206" -> "_3216Metric"
    [] package = "1210" -> "_3225Metric"
    [] package = "2010" -> "_5025Metric"
    [] package = "2512" -> "_6332Metric"
    [] OTHER            -> "_Metric"

manifest_path == "libraries/manifest.json"
config_path == "config.toml"

\* the text init writes to config.toml
default_config == "# Atlantix EDA Configuration ..."

\* the text init writes to manifest.json: the five categories, each empty
default_manifest ==
  [ name        |-> "atlantix_eda",
    version     |-> "1.0.0",
    description |-> "Atlantix EDA Component Libraries",
    libraries   |-> {<< c, {} >> :
                       c \in {"resistor", "capacitor", "inductor", "diode", "ic"}} ]

\* the Manifest update_manifest starts from when there is no file
new_manifest ==
  [ name        |-> "atlantix_eda",
    version     |-> "1.0.0",
    description |-> "Atlantix EDA Component Libraries",
    libraries   |-> << >> ]

\* serde_json::from_str::<Manifest>: the four fields of the struct; any
\* other field of the JSON object is ignored
manifest_from_str(content) ==
  [ name        |-> content.name,
    version     |-> content.version,
    description |-> content.description,
    libraries   |-> LET categories == JsonMap(content.libraries)
                    IN  [c \in DOMAIN categories |-> JsonMap(categories[c])] ]

\* serde_json::to_string_pretty(&manifest)
manifest_to_string(manifest) ==
  [ name        |-> manifest.name,
    version     |-> manifest.version,
    description |-> manifest.description,
    libraries   |-> JsonObject([c \in DOMAIN manifest.libraries |->
                                  JsonObject(manifest.libraries[c])]) ]

\* the entry is inserted into a fresh map of its category
libraries_insert_fresh(libraries, category, name, path) ==
  [c \in DOMAIN libraries \cup {category} |->
     IF c = category THEN [n \in {name} |-> path] ELSE libraries[c]]

\* manifest.libraries.entry(category).or_insert_with(HashMap::new)
\*   .insert(name, path)
libraries_insert(libraries, category, name, path) ==
  LET old == IF category \in DOMAIN libraries THEN libraries[category] ELSE << >>
      new == [n \in DOMAIN old \cup {name} |-> IF n = name THEN path ELSE old[n]]
  IN  [c \in DOMAIN libraries \cup {category} |->
         IF c = category THEN new ELSE libraries[c]]

\* update_manifest; fault names the step that fails ("read", "write") or is
\* "none". The files afterwards, or the error
update_manifest(d, category, name, path, fault) ==
  IF manifest_path \in DOMAIN d /\ fault = "read"
  THEN Err("Failed to read manifest")
  ELSE LET manifest == IF manifest_path \in DOMAIN d
                       THEN manifest_from_str(d[manifest_path])
                       ELSE new_manifest
           updated  == [manifest EXCEPT
                          !.libraries = libraries_insert(@, category, name, path)]
       IN  IF fault = "write" THEN Err("Failed to write manifest")
           ELSE Ok(WriteFile(d, manifest_path, manifest_to_string(updated)))

\* the ResistorLibrary of generate resistors, printed by to_string_pretty
ResistorLibrary(series, package, base_values) ==
  [ name         |-> series \o "_" \o package,
    type         |-> "resistor",
    description  |-> series \o " Resistors in " \o package \o " package",
    package      |-> package,
    footprint    |-> "Resistor_SMD:R_" \o package \o get_metric_suffix(package),
    tolerance    |-> get_tolerance(series),
    power_rating |-> get_power_rating(package),
    series       |-> series,
    pins         |-> << "1", "2" >>,
    prefix       |-> "R",
    base_values  |-> base_values ]

\* the CapacitorLibrary of generate capacitors, printed by to_string_pretty
CapacitorLibrary(dielectric, package) ==
  [ name           |-> dielectric \o "_" \o package,
    type           |-> "capacitor",
    description    |-> dielectric \o " MLCC Capacitors in " \o package \o " package",
    package        |-> package,
    footprint      |-> "Capacitor_SMD:C_" \o package \o get_metric_suffix(package),
    dielectric     |-> dielectric,
    voltage_rating |-> "16V",
    tolerance      |-> "10%",
    pins           |-> << "1", "2" >>,
    prefix         |-> "C",
    values         |-> << "10pF", "22pF", "47pF", "100pF", "220pF", "470pF",
                          "1nF", "2.2nF", "4.7nF", "10nF", "22nF", "47nF",
                          "100nF", "220nF", "470nF", "1uF", "2.2uF", "4.7uF",
                          "10uF" >> ]

\* a library file is written although fs::write has failed: the error is
\* dropped and the command goes on
write_library_unchecked(d, lib_path, content, written) ==
  IF written THEN Ok(WriteFile(d, lib_path, content)) ELSE Ok(d)

\* fs::write(&lib_path, content).map_err(..)?: the files afterwards, or the
\* error the command returns
write_library(d, lib_path, content, written) ==
  IF written THEN Ok(WriteFile(d, lib_path, content))
  ELSE Err("Failed to write library")

\* the arguments explored: a series get_e_series knows and one it does not
CliSeries == {"E6", "E3"}
CliDielectrics == {"X7R"}
CliPackages == {"0603", "0805"}

\* packages.split(',') yields at least one package
CliPackageLists == DistinctSeqs(CliPackages, MaxPackages) \ {<< >>}

CliCommands ==
  {[name |-> "init"]}
    \cup {[name |-> "resistors", kind |-> s, packages |-> ps] :
            s \in CliSeries, ps \in CliPackageLists}
    \cup {[name |-> "capacitors", kind |-> k, packages |-> ps] :
            k \in CliDielectrics, ps \in CliPackageLists}

\* a manifest and a configuration the user has prepared by hand
UserManifest ==
  [ name        |-> "my_libraries",
    version     |-> "2.1.0",
    description |-> "Hand-made",
    libraries   |-> {<< "inductor", {<< "L_0603", "inductor/L_0603.json" >>} >>,
                     << "resistor", {<< "E6_1206", "resistor/E6_1206.json" >>} >>} ]

\* the data directory before the first command: empty, or prepared
CliDisks ==
  { << >>,
    [f \in {manifest_path, config_path} |->
       IF f = manifest_path THEN UserManifest ELSE "# my configuration"] }

InitCli ==
  /\ disk \in CliDisks
  /\ cli = NoCommand
  /\ recorded = << >>
  /\ FnIdle
  /\ LegacyIdle
  /\ EcsIdle
  /\ GuiIdle

\* the command has returned
Returns(r) == [name |-> "none", done |-> cli.done + 1, result |-> r]

\* the category of the generate command being executed, the name of the
\* library of its current package, and the path recorded in the manifest
Category == IF cli.name = "resistors" THEN "resistor" ELSE "capacitor"
LibraryName == cli.kind \o "_" \o cli.packages[cli.i]
RelativePath == Category \o "/" \o LibraryName \o ".json"

\* aeda is started with one of the commands
CliStart ==
  /\ cli.name = "none" /\ cli.done < MaxCommands
  /\ \E c \in CliCommands :
       cli' = IF c.name = "init" THEN [name |-> "init", done |-> cli.done]
              ELSE [name |-> c.name, kind |-> c.kind, packages |-> c.packages,
                    at |-> "start", i |-> 1, done |-> cli.done]
  /\ UNCHANGED << disk, recorded, fnVars, legacyVars, ecsVars, guiVars >>

\* init::run: the directories, then config.toml and manifest.json where
\* they do not exist; fault names the step that fails, or is "none"
CliInit ==
  /\ cli.name = "init"
  /\ \E fault \in {"none", "dirs", "config", "manifest"} :
       LET configured == IF config_path \in DOMAIN disk THEN disk
                         ELSE WriteFile(disk, config_path, default_config)
           initialised == IF manifest_path \in DOMAIN configured THEN configured
                          ELSE WriteFile(configured, manifest_path, default_manifest)
       IN  /\ fault = "config" => config_path \notin DOMAIN disk
           /\ fault = "manifest" => manifest_path \notin DOMAIN disk
           /\ disk' = CASE fault = "dirs" -> disk
                        [] fault = "config" -> disk
                        [] fault = "manifest" -> configured
                        [] OTHER -> initialised
           /\ cli' = Returns(IF fault = "none" THEN Ok("")
                             ELSE Err("Failed to write " \o fault))
  /\ UNCHANGED << recorded, fnVars, legacyVars, ecsVars, guiVars >>

\* resistors and capacitors up to the package loop: the series is looked up
\* (resistors) and the directory of the category is created
CliGenerateStart ==
  /\ cli.name \in {"resistors", "capacitors"} /\ cli.at = "start"
  /\ IF cli.name = "resistors" /\ ~get_e_series(cli.kind).ok
     THEN cli' = Returns(get_e_series(cli.kind))
     ELSE \E created \in BOOLEAN :
            cli' = IF created THEN [cli EXCEPT !.at = "write"]
                   ELSE Returns(Err("Failed to create directory"))
  /\ UNCHANGED << disk, recorded, fnVars, legacyVars, ecsVars, guiVars >>

\* the package loop up to fs::write of the library file
CliWriteLibrary ==
  /\ cli.name \in {"resistors", "capacitors"} /\ cli.at = "write"
  /\ \E written \in BOOLEAN :
       LET package == cli.packages[cli.i]
           library == IF cli.name = "resistors"
                      THEN ResistorLibrary(cli.kind, package,
                                           get_e_series(cli.kind).val)
                      ELSE CapacitorLibrary(cli.kind, package)
           done    == write_library(disk, "libraries/" \o RelativePath, library,
                                    written)
       IN  /\ disk' = IF done.ok THEN done.val ELSE disk
           /\ cli' = IF done.ok THEN [cli EXCEPT !.at = "manifest"]
                     ELSE Returns(done)
  /\ UNCHANGED << recorded, fnVars, legacyVars, ecsVars, guiVars >>

\* the rest of the loop body: update_manifest, then the next package or the
\* end of the command
CliUpdateManifest ==
  /\ cli.name \in {"resistors", "capacitors"} /\ cli.at = "manifest"
  /\ \E fault \in {"none", "read", "write"} :
       LET done == update_manifest(disk, Category, LibraryName, RelativePath, fault)
       IN  /\ fault = "read" => manifest_path \in DOMAIN disk
           /\ disk' = IF done.ok THEN done.val ELSE disk
           /\ recorded' =
                IF ~done.ok THEN recorded
                ELSE LET key  == << Category, LibraryName >>
                         path == manifest_from_str(done.val[manifest_path])
                                   .libraries[Category][LibraryName]
                     IN  [k \in DOMAIN recorded \cup {key} |->
                            IF k = key THEN path ELSE recorded[k]]
           /\ cli' = IF ~done.ok THEN Returns(done)
                     ELSE IF cli.i = Len(cli.packages) THEN Returns(Ok(""))
                     ELSE [cli EXCEPT !.at = "write", !.i = @ + 1]
  /\ UNCHANGED << fnVars, legacyVars, ecsVars, guiVars >>

NextCli ==
  \/ CliStart
  \/ CliInit
  \/ CliGenerateStart
  \/ CliWriteLibrary
  \/ CliUpdateManifest

SpecCli == InitCli /\ [][NextCli]_vars

------------------------------------------------------------------------------
(* Properties of the manifest (SpecCli) *)

\* C21: a manifest entry category/name -> path is recorded by generate only
\* after the library file at exactly that path under libraries/ has been
\* written: in every state, also after commands that failed part-way
\* through their package list, every entry generate has recorded refers to
\* a library file that exists.
C21_RecordedAfterWritten ==
  \A key \in DOMAIN recorded :
    /\ recorded[key] = key[1] \o "/" \o key[2] \o ".json"
    /\ ("libraries/" \o recorded[key]) \in DOMAIN disk
    /\ disk["libraries/" \o recorded[key]].name = key[2]

\* C21 witness: generate resistors has failed on the library file of its
\* second package after recording the first
C21_Witness ==
  /\ cli.name = "none" /\ cli.done >= 1
  /\ ~cli.result.ok /\ cli.result.err = "Failed to write library"
  /\ << "resistor", "E6_0603" >> \in DOMAIN recorded
  /\ "libraries/resistor/E6_0805.json" \notin DOMAIN disk
  /\ "libraries/resistor/E6_0603.json" \in DOMAIN disk

------------------------------------------------------------------------------
(* Properties of one schedule run (SpecEcs) *)

\* C22 (as claimed): within one schedule run the systems take effect in the
\* order they are added, so the resistors generate_eseries_values spawns are
\* seen by assign_package_attributes and generate_manufacturer_parts in that
\* same run: after a single run of the generation schedule every resistor
\* has its description and its manufacturer parts.
C22_SingleRunFills ==
  (history = << "generation" >> /\ sched = NoSched) =>
    \A i \in Resistors :
      /\ world[i].description # ""
      /\ Len(world[i].manufacturers) = Len(Recognised(config.manufacturers))

------------------------------------------------------------------------------
(* Properties of the shape of the KOA part number (SpecFn) *)

\* C23: for every value the pipeline generates (every base value of every
\* series times each of the six decades) the KOA value code has exactly 4
\* characters, so the KOA MPN has the fixed shape
\* RK73H{2 chars}TTD{4 chars}F.
C23_KoaCodeFourChars ==
  (arg.kind = "mpn" /\ "generate_koa_mpn" \in DOMAIN out) =>
    LET mpn == out["generate_koa_mpn"]
    IN  /\ Len(mpn) = 15
        /\ SubSeq(mpn, 1, 5) = "RK73H"
        /\ SubSeq(mpn, 8, 10) = "TTD"
        /\ SubSeq(mpn, 15, 15) = "F"
        /\ \A k \in {11, 12, 14} : CharAt(mpn, k) \in DOMAIN Digit
        /\ CharAt(mpn, 13) \in DOMAIN Digit \cup {"R"}

\* C23 witness: the encoder applied to the smallest and to the largest value
\* of E192, 1.00 ohm and 988K
C23_Witness ==
  /\ arg.kind = "mpn" /\ arg.series = 192 /\ arg.package = "0805"
  /\ "generate_koa_mpn" \in DOMAIN out
  /\ \/ arg.ohms = 100 /\ out["generate_koa_mpn"] = "RK73H2ATTD01R0F"
     \/ arg.ohms = 98800000 /\ out["generate_koa_mpn"] = "RK73H2ATTD9884F"

------------------------------------------------------------------------------
(* Properties of the symbols of one library (SpecFn) *)

\* the names of the symbols added to the library so far
SymbolNames == {SymbolLoop.symbols[k].name : k \in 1..Len(SymbolLoop.symbols)}

\* C24: the symbol names R{package}_{value} of one library written by
\* generate_kicad_symbols are pairwise distinct, for every supported series
\* and every list of distinct decades taken from the six supported decades.
C24_SymbolNamesDistinct ==
  (arg.kind = "symbols" /\ arg.series \in SupportedSeries
     /\ \A d \in 1..Len(arg.decades) : arg.decades[d] \in Decades) =>
    Cardinality(SymbolNames) = Len(SymbolLoop.symbols)

\* C24 witness: the library of E192 over the six decades is complete
C24_Witness ==
  /\ arg.kind = "symbols" /\ arg.series = 192
  /\ arg.decades = << 1, 10, 100, 1000, 10000, 100000 >>
  /\ SymbolLoop.d = 7
  /\ Len(SymbolLoop.symbols) = 1152
  /\ SymbolLoop.symbols[2].name = "R0603_1.01"
  /\ SymbolLoop.symbols[1152].name = "R0603_988K"

\* C25 (as claimed): for a fixed package Resistor::generate_vishay_mpn maps
\* distinct display values of the generated value set (all base values of a
\* series across the six decades, values of 10K and above included) to
\* distinct manufacturer part numbers.
C25_VishayMpnInjective ==
  (arg.kind = "symbols" /\ arg.series \in SupportedSeries
     /\ \A d \in 1..Len(arg.decades) : arg.decades[d] \in Decades) =>
    \A j, k \in 1..Len(SymbolLoop.symbols) :
      SymbolLoop.symbols[j].value # SymbolLoop.symbols[k].value
        => SymbolLoop.symbols[j].mpn # SymbolLoop.symbols[k].mpn

\* C26: every value emitted by Resistor::generate or generate_kicad_symbols
\* for a (decade, base value) pair is the display value of base value x
\* decade, for every decade passed in, the six handled ones or not: no value
\* is left over from the previous iteration or from construction.
C26_ValueOfItsPair ==
  /\ (arg.kind = "value" /\ arg.series # 0) =>
       \A f \in DOMAIN out \cap {"generate", "update_value_for_decade"} :
         out[f] = format_resistance(
                    new_series_array(arg.series)[arg.index] * arg.decade)
  /\ arg.kind = "symbols" =>
       \A j \in 1..Len(SymbolLoop.symbols) :
         LET d == ((j - 1) \div arg.series) + 1
             index == ((j - 1) % arg.series) + 1
         IN  SymbolLoop.symbols[j].value =
               format_resistance(SymbolLoop.r.series_array[index] * arg.decades[d])

-----------------------------------------------------------------------------
(* src/src/gui/mod.rs: the generation tab and its background worker *)

\* the number of generations one session starts
MaxGenerations == 2

\* GenerationStatus; the wall-clock duration of Completed is not kept
Idle == [is |-> "Idle"]
Running(progress, message) ==
  [is |-> "Running", progress |-> progress, message |-> message]
Completed(component_count) ==
  [is |-> "Completed", component_count |-> component_count]

\* AppConfig::default, the fields the generation reads
AppConfig_default ==
  [ output_formats |-> {"KiCad"}, packages |-> {"0603", "0805"},
    manufacturers |-> {"Vishay"}, e_series |-> 96 ]

\* the choices of the configuration tab that are explored
GuiFormats == {"KiCad"}
GuiPackages == {"0603", "0805"}
GuiManufacturers == {"Vishay"}
GuiSeries == {24, 96}

\* a checkbox click: insert when the box becomes checked, remove otherwise
Toggle(set, item) == IF item \in set THEN set \ {item} ELSE set \cup {item}

\* start_generation that spawns the worker and leaves the status as it is
start_generation_keeps_status(status, threads, cfg) ==
  [ status  |-> status,
    workers |-> Append(threads, [at |-> "spawned", config |-> cfg]) ]

\* start_generation: the status is set to Running under the lock, then the
\* thread is spawned with a clone of the configuration
start_generation(status, threads, cfg) ==
  [ status  |-> Running(0, "Initializing generation..."),
    workers |-> Append(threads, [at |-> "spawned", config |-> cfg]) ]

\* the count the worker reports: one ResistorValue entity per template
\* package, decade of the six and value of the series
component_count(cfg) ==
  Cardinality(cfg.packages) * 6 * Len(calculate_values(cfg.e_series))

InitGui ==
  /\ generation_status = Idle
  /\ workers = << >>
  /\ app = [at |-> "frame", config |-> AppConfig_default]
  /\ arg = [kind |-> "none"]
  /\ out = NoCall
  /\ LegacyIdle
  /\ EcsIdle
  /\ CliIdle

\* show_configuration_tab with one click in the frame
ShowConfigurationTab ==
  /\ app.at = "frame"
  /\ \E cfg \in
         {[app.config EXCEPT !.output_formats = Toggle(@, f)] : f \in GuiFormats}
           \cup {[app.config EXCEPT !.packages = Toggle(@, k)] : k \in GuiPackages}
           \cup {[app.config EXCEPT !.manufacturers = Toggle(@, m)] :
                   m \in GuiManufacturers}
           \cup {[app.config EXCEPT !.e_series = s] : s \in GuiSeries} :
       app' = [app EXCEPT !.config = cfg]
  /\ UNCHANGED << generation_status, workers, fnVars, legacyVars, ecsVars, cliVars >>

\* show_generation_tab up to the match: the status is cloned under the lock
ShowGenerationTabLock ==
  /\ app.at = "frame"
  /\ app' = [at |-> "match", config |-> app.config, status |-> generation_status]
  /\ UNCHANGED << generation_status, workers, fnVars, legacyVars, ecsVars, cliVars >>

\* show_generation_tab from the match on, with the button of the arm clicked
\* or not
ShowGenerationTabMatch ==
  /\ app.at = "match"
  /\ \E clicked \in BOOLEAN :
       LET can_generate == /\ app.config.packages # {}
                           /\ app.config.output_formats # {}
                           /\ app.config.manufacturers # {}
           started == start_generation(generation_status, workers, app.config)
       IN  CASE app.status.is = "Idle" /\ clicked /\ can_generate
                  /\ Len(workers) < MaxGenerations ->
                  /\ generation_status' = started.status
                  /\ workers' = started.workers
             [] app.status.is \in {"Completed", "Error"} /\ clicked ->
                  /\ generation_status' = Idle
                  /\ UNCHANGED workers
             [] OTHER -> UNCHANGED << generation_status, workers >>
  /\ app' = [at |-> "frame", config |-> app.config]
  /\ UNCHANGED << fnVars, legacyVars, ecsVars, cliVars >>

\* the worker from its start to its first status write
WorkerSetup ==
  \E w \in DOMAIN workers :
    /\ workers[w].at = "spawned"
    /\ generation_status' = Running(20, "Setting up component templates...")
    /\ workers' = [workers EXCEPT ![w].at = "templates"]
    /\ UNCHANGED << app, fnVars, legacyVars, ecsVars, cliVars >>

\* the worker spawns the package templates and writes its second status
WorkerTemplates ==
  \E w \in DOMAIN workers :
    /\ workers[w].at = "templates"
    /\ generation_status' = Running(60, "Generating resistor values...")
    /\ workers' = [workers EXCEPT ![w].at = "schedules"]
    /\ UNCHANGED << app, fnVars, legacyVars, ecsVars, cliVars >>

\* the worker runs both schedules, counts the components and writes Completed
WorkerComplete ==
  \E w \in DOMAIN workers :
    /\ workers[w].at = "schedules"
    /\ generation_status' = Completed(component_count(workers[w].config))
    /\ workers' = [workers EXCEPT ![w].at = "completed"]
    /\ UNCHANGED << app, fnVars, legacyVars, ecsVars, cliVars >>

\* the worker logs the duration and its thread ends
WorkerExit ==
  \E w \in DOMAIN workers :
    /\ workers[w].at = "completed"
    /\ workers' = [workers EXCEPT ![w].at = "exited"]
    /\ UNCHANGED << generation_status, app, fnVars, legacyVars, ecsVars, cliVars >>

NextGui ==
  \/ ShowConfigurationTab
  \/ ShowGenerationTabLock
  \/ ShowGenerationTabMatch
  \/ WorkerSetup
  \/ WorkerTemplates
  \/ WorkerComplete
  \/ WorkerExit

SpecGui == InitGui /\ [][NextGui]_vars

-----------------------------------------------------------------------------
(* Properties of the generation tab (SpecGui) *)

\* the workers whose thread has not ended
Alive == {w \in DOMAIN workers : workers[w].at # "exited"}

\* the workers that have not yet made their last status write
Writing == {w \in DOMAIN workers : workers[w].at \in {"spawned", "templates", "schedules"}}

\* C27 as stated: for every interleaving of UI frames and the background
\* worker, at most one generation worker is alive at any time.
C27_OneWorkerAlive == Cardinality(Alive) <= 1

\* C27, amended: for every interleaving of UI frames and the background
\* worker, at most one generation worker has still a status write to make:
\* while there is one the status is Running, so start_generation, reachable
\* only from a frame that read Idle, is not reached, and the status returns
\* to Idle only from Completed or Error, after the last status write.
C27_OneWorkerWriting ==
  /\ Cardinality(Writing) <= 1
  /\ Writing # {} => generation_status.is = "Running"
  /\ (app.at = "match" /\ app.status.is = "Idle") => Writing = {}

\* C27 witness: a second generation is under way while the thread of the
\* first, past its Completed write, has not ended
C27_Witness ==
  /\ Len(workers) = 2
  /\ workers[1].at = "completed"
  /\ workers[2].at = "schedules"
  /\ generation_status.is = "Running"

-----------------------------------------------------------------------------
(* Properties of the manifest over sequences of commands (SpecCli) *)

\* the manifest read back from the files d
ManifestOn(d) == manifest_from_str(d[manifest_path])

\* C28: over any sequence of init, generate resistors and generate
\* capacitors commands on one data directory, no step loses a manifest
\* entry: a step that changes the manifest is the update_manifest of the
\* generate command under way and changes only libraries[category][name],
\* keeping every other entry and the name, version and description; init
\* leaves an existing manifest.json and an existing config.toml as they
\* are; and every entry generate has recorded is in the manifest with the
\* path of its most recent recording.
C28_ManifestKept ==
  [][ /\ \A f \in {manifest_path, config_path} :
           f \in DOMAIN disk =>
             /\ f \in DOMAIN disk'
             /\ cli.name = "init" => disk'[f] = disk[f]
      /\ config_path \in DOMAIN disk => disk'[config_path] = disk[config_path]
      /\ manifest_path \in DOMAIN disk =>
           LET old == ManifestOn(disk)
               new == ManifestOn(disk')
           IN  /\ new.name = old.name
               /\ new.version = old.version
               /\ new.description = old.description
               /\ \A c \in DOMAIN old.libraries :
                    /\ c \in DOMAIN new.libraries
                    /\ \A n \in DOMAIN old.libraries[c] :
                         /\ n \in DOMAIN new.libraries[c]
                         /\ \/ new.libraries[c][n] = old.libraries[c][n]
                            \/ /\ cli.name \in {"resistors", "capacitors"}
                               /\ cli.at = "manifest"
                               /\ c = Category /\ n = LibraryName
                               /\ new.libraries[c][n] = RelativePath
      /\ \A k \in DOMAIN recorded' :
           /\ manifest_path \in DOMAIN disk'
           /\ k[1] \in DOMAIN ManifestOn(disk').libraries
           /\ k[2] \in DOMAIN ManifestOn(disk').libraries[k[1]]
           /\ ManifestOn(disk').libraries[k[1]][k[2]] = recorded'[k]
    ]_vars

\* C28 witness: MaxCommands commands have run on a prepared directory,
\* libraries of two categories have been recorded, one of them in the
\* category of a hand-made entry, and the hand-made entries and fields are
\* in the manifest
C28_Witness ==
  /\ cli.name = "none" /\ cli.done = MaxCommands /\ cli.result.ok
  /\ manifest_path \in DOMAIN disk
  /\ ManifestOn(disk).name = "my_libraries"
  /\ DOMAIN recorded = {<< "resistor", "E6_0603" >>, << "capacitor", "X7R_0603" >>}
  /\ DOMAIN ManifestOn(disk).libraries = {"inductor", "resistor", "capacitor"}
  /\ DOMAIN ManifestOn(disk).libraries["resistor"] = {"E6_1206", "E6_0603"}

-----------------------------------------------------------------------------
(* Properties of the footprint geometry (SpecFn) *)

\* C29: for every package of the footprint table the courtyard rectangle
\* generate_footprint draws encloses both pads:
\* pad_center_x + pad_width/2 <= body_length/2 + courtyard_margin and
\* pad_height/2 <= body_width/2 + courtyard_margin (all doubled here, in
\* micrometres).
C29_CourtyardEnclosesPads ==
  ( /\ arg.kind = "footprint" /\ arg.package \in TablePackages
    /\ "generate_footprint" \in DOMAIN out ) =>
    LET fp == new_smd_resistor(arg.package).val
    IN  \A k \in 1..Len(fp.pads) :
          /\ 2 * Abs(fp.pads[k].at_x) + fp.pads[k].size_x
               <= fp.body_size_x + 2 * fp.courtyard_margin
          /\ 2 * Abs(fp.pads[k].at_y) + fp.pads[k].size_y
               <= fp.body_size_y + 2 * fp.courtyard_margin

-----------------------------------------------------------------------------
(* src/crates/atlantix-core/ecs/mod.rs: build_resistor_world and
   run_generation_pipeline (SpecPipeline) *)

\* GeneratorConfig::default
GeneratorConfig_default ==
  [ output_formats |-> << "KicadSymbols", "KicadFootprints" >>,
    manufacturers  |-> << "Vishay" >>,
    decades        |-> << 1, 10, 100, 1000, 10000, 100000 >> ]

\* build_resistor_world: a new World with the one resource it registers
build_resistor_world ==
  [ resources |-> {"GeneratorConfig"},
    config    |-> GeneratorConfig_default,
    entities  |-> << >> ]

\* the systems run_generation_pipeline adds to its schedule
PipelineSystems ==
  {"generate_eseries_values", "assign_package_attributes", "calculate_tolerances",
   "generate_manufacturer_parts", "format_outputs"}

\* the resources the parameters of a system request (Res, ResMut)
Requests(system) ==
  CASE system = "generate_eseries_values"     -> {"GeneratorConfig", "ESeriesCache"}
    [] system = "generate_manufacturer_parts" -> {"GeneratorConfig"}
    [] system = "format_outputs"              -> {"GeneratorConfig"}
    [] OTHER                                  -> {}

\* calculate_tolerances: an insert of Tolerance queued for every entity with
\* an ESeries and no Tolerance
calculate_tolerances(w) ==
  LET matched == SelectSeq(w, LAMBDA e : IsTemplate(e) /\ "tolerance" \notin DOMAIN e)
  IN  [i \in 1..Len(matched) |->
         [ op |-> "insert", entity |-> matched[i].id,
           tolerance |-> get_tolerance_from_series(matched[i].series) ]]

\* an insert is queued behind the despawn of its entity
InsertAfterDespawn(queued) ==
  \E i, j \in 1..Len(queued) :
    /\ i < j
    /\ queued[i].op = "despawn" /\ queued[j].op = "insert"
    /\ queued[i].entity = queued[j].entity

\* the queued commands applied at change tick t: the despawned entities
\* leave the world, an insert reaches its entity if it is still there, and
\* the spawned bundles become new entities in the order they were queued (no
\* command of a run names an entity spawned in the same run)
apply_deferred(w, queued, t, next_id) ==
  LET despawned == {queued[i].entity : i \in {k \in 1..Len(queued) :
                                                queued[k].op = "despawn"}}
      inserts   == SelectSeq(queued, LAMBDA c : c.op = "insert")
      spawns    == SelectSeq(queued, LAMBDA c : c.op = "spawn")
      kept      == SelectSeq(w, LAMBDA e : e.id \notin despawned)
      Inserted(e) ==
        IF \E i \in 1..Len(inserts) : inserts[i].entity = e.id
        THEN [tolerance |->
                inserts[CHOOSE i \in 1..Len(inserts) :
                          /\ inserts[i].entity = e.id
                          /\ \A k \in 1..Len(inserts) :
                               inserts[k].entity = e.id => k <= i].tolerance] @@ e
        ELSE e
  IN  [i \in 1..Len(kept) |-> Inserted(kept[i])]
        \o [i \in 1..Len(spawns) |->
              [id |-> next_id + i - 1, added |-> t] @@ spawns[i].bundle]

\* the world handed to run_generation_pipeline: built by
\* build_resistor_world, the caller has added template entities and may have
\* inserted an ESeriesCache itself
InitPipeline ==
  /\ \E built \in {build_resistor_world,
                   [build_resistor_world EXCEPT !.resources = @ \cup {"ESeriesCache"}]} :
       /\ params \in [ series    : EcsSeries,
                       packages  : DistinctSeqs(EcsPackages, MaxPackages),
                       resources : {built.resources} ]
       /\ config = built.config
       /\ world = built.entities \o Templates(params.series, params.packages)
  /\ commands = << >>
  /\ cache = EmptyCache
  /\ sched = NoSched
  /\ tick = 1
  /\ last_run = [s \in {"pipeline"} |-> [y \in PipelineSystems |-> -1]]
  /\ history = << >>
  /\ FnIdle
  /\ LegacyIdle
  /\ CliIdle
  /\ GuiIdle

\* run_generation_pipeline up to schedule.run
PipelineStart ==
  /\ sched.name = "none"
  /\ Len(history) < MaxRuns
  /\ sched' = [name |-> "pipeline", todo |-> PipelineSystems, skipped |-> {}]
  /\ UNCHANGED << params, world, commands, cache, config, tick, last_run,
                  history, fnVars, legacyVars, cliVars, guiVars >>

\* a system whose parameters request a resource the world does not hold:
\* depending on the bevy_ecs release the run panics, or the system is
\* skipped with a warning
ResourceMissing(system) ==
  /\ \E outcome \in {"panic", "skip"} :
       sched' = IF outcome = "panic"
                THEN [name |-> "panicked", todo |-> {}, skipped |-> sched.skipped,
                      system |-> system]
                ELSE [sched EXCEPT !.todo = @ \ {system},
                                   !.skipped = @ \cup {system}]
  /\ UNCHANGED << params, world, commands, cache, config, tick, last_run,
                  history, fnVars, legacyVars, cliVars, guiVars >>

\* the executor picks a system of the schedule that has not run yet
Picked(system) == sched.name = "pipeline" /\ system \in sched.todo

PipelineGenerateEseriesValues ==
  /\ Picked("generate_eseries_values")
  /\ IF Requests("generate_eseries_values") \subseteq params.resources
     THEN /\ LET done == generate_eseries_values(world, config, cache, << >>, 1)
             IN  /\ commands' = commands \o done.commands
                 /\ cache' = done.cache
          /\ UNCHANGED world
          /\ SystemRan("generate_eseries_values")
     ELSE ResourceMissing("generate_eseries_values")

PipelineAssignPackageAttributes ==
  /\ Picked("assign_package_attributes")
  /\ world' = assign_package_attributes(world,
                last_run[sched.name]["assign_package_attributes"])
  /\ UNCHANGED << commands, cache >>
  /\ SystemRan("assign_package_attributes")

PipelineCalculateTolerances ==
  /\ Picked("calculate_tolerances")
  /\ commands' = commands \o calculate_tolerances(world)
  /\ UNCHANGED << world, cache >>
  /\ SystemRan("calculate_tolerances")

PipelineGenerateManufacturerParts ==
  /\ Picked("generate_manufacturer_parts")
  /\ IF Requests("generate_manufacturer_parts") \subseteq params.resources
     THEN /\ world' = generate_manufacturer_parts(world, config)
          /\ UNCHANGED << commands, cache >>
          /\ SystemRan("generate_manufacturer_parts")
     ELSE ResourceMissing("generate_manufacturer_parts")

\* format_outputs builds its symbols and CSV lines and drops them
PipelineFormatOutputs ==
  /\ Picked("format_outputs")
  /\ IF Requests("format_outputs") \subseteq params.resources
     THEN /\ UNCHANGED << world, commands, cache >>
          /\ SystemRan("format_outputs")
     ELSE ResourceMissing("format_outputs")

\* the end of schedule.run: the deferred commands are applied; an insert on
\* a despawned entity panics or is dropped, depending on the bevy_ecs release
PipelineFinish ==
  /\ sched.name = "pipeline" /\ sched.todo = {}
  /\ \E outcome \in {"panic", "drop"} :
       /\ outcome = "panic" => InsertAfterDespawn(commands)
       /\ sched' = IF outcome = "panic"
                   THEN [name |-> "panicked", todo |-> {}, skipped |-> sched.skipped,
                         system |-> "apply_deferred"]
                   ELSE [name |-> "none", todo |-> {}, skipped |-> sched.skipped]
  /\ world' = apply_deferred(world, commands, tick, NextId(world))
  /\ commands' = << >>
  /\ history' = IF sched'.name = "panicked" THEN history
                ELSE Append(history, sched.name)
  /\ UNCHANGED << params, cache, config, tick, last_run, fnVars, legacyVars, cliVars, guiVars >>

NextPipeline ==
  \/ PipelineStart
  \/ PipelineGenerateEseriesValues
  \/ PipelineAssignPackageAttributes
  \/ PipelineCalculateTolerances
  \/ PipelineGenerateManufacturerParts
  \/ PipelineFormatOutputs
  \/ PipelineFinish

SpecPipeline == InitPipeline /\ [][NextPipeline]_vars

\* C30: a world returned by build_resistor_world holds every resource the
\* systems of run_generation_pipeline request, so the run on it, template
\* entities added, reaches its end: it never stops on a missing resource
\* and no system is left out for one.
C30_PipelineCompletes ==
  params.resources = build_resistor_world.resources =>
    /\ sched.name # "panicked"
    /\ "skipped" \in DOMAIN sched => sched.skipped = {}
====
